---- MODULE Spec2Model ----
(***************************************************************************)
(* Model of the VictoriaLogs filter evaluator (token and text matching     *)
(* kernel, per-encoding filter dispatch) and of the stats pipe executor.   *)
(*                                                                         *)
(* Strings are Go strings: sequences of bytes (0..255).  Runes are Unicode *)
(* code points.  Byte offsets of the Go code are 0-based; the sequences of *)
(* the model are 1-based, so s[i+1] is the byte at Go offset i.            *)
(***************************************************************************)
EXTENDS Integers, Sequences, FiniteSets, TLC

VARIABLES
    s,          \* text kernel harness: the string handed to a matcher
    needle,     \* text kernel harness: the phrase / prefix
    res,        \* text kernel harness: the last matcher call and its result
    bs,         \* filter evaluator: the block being searched
    bm,         \* filter evaluator: the bitmap, as the set of rows whose bit is set
    bmIn,       \* filter evaluator: the bitmap handed to the last apply
    flt,        \* filter evaluator: the filter whose apply ran last
    fs,         \* shared stream filter: its fields, its sync.Once and the index it searches
    ap,         \* shared stream filter: each goroutine's position in apply
    kt,         \* group keys: the by-field values of two rows of one block
    kr,         \* group keys: the keys writeBlock made of them and what flush decodes
    jr,         \* journald: the request body, its entries and the settings of the call
    jp,         \* journald: locals of parseJournaldRequest and the rows given to AddRow
    ps,         \* stats pipe: byFields, workersCount and maxStateSize of the processor
    stateSizeBudget, \* stats pipe: psp.stateSizeBudget, the global atomic counter
    shards,     \* stats pipe: psp.shards, indexed by workerID (0-based)
    wb,         \* stats pipe: each worker's position in writeBlock
    cancelCalls, \* stats pipe: number of calls of psp.cancel
    stopCh,     \* stats pipe: TRUE once psp.stopCh is closed
    fl,         \* stats pipe: position and locals of flush
    out,        \* stats pipe: the blocks handed to ppBase.writeBlock
    single      \* stats pipe: a lone shard that is fed every processed block

kernelVars == <<s, needle, res>>
filterVars == <<bs, bm, bmIn, flt>>
onceVars == <<fs, ap>>
keyVars == <<kt, kr>>
journalVars == <<jr, jp>>
statsVars == <<ps, stateSizeBudget, shards, wb, cancelCalls, stopCh, fl, out, single>>
vars == <<s, needle, res, bs, bm, bmIn, flt, fs, ap, kt, kr, jr, jp,
          ps, stateSizeBudget, shards, wb, cancelCalls, stopCh, fl, out, single>>

-----------------------------------------------------------------------------
(* Bounds of the model *)

\* longest string (in runes) handed to a matcher
MaxStrRunes == 3
\* longest phrase / prefix (in runes)
MaxNeedleRunes == 2
\* rows of a block
MaxRows == 2

-----------------------------------------------------------------------------
(* UTF-8 (unicode/utf8) as used by the matchers *)

RuneSelf == 128
RuneError == 65533

IsContinuation(b) == b >= 128 /\ b < 192

\* utf8.AppendRune for code points below 0x10000
EncodeRune(r) ==
    IF r < 128 THEN <<r>>
    ELSE IF r < 2048 THEN <<192 + (r \div 64), 128 + (r % 64)>>
    ELSE <<224 + (r \div 4096), 128 + ((r \div 64) % 64), 128 + (r % 64)>>

\* utf8.DecodeRuneInString: [r |-> rune, size |-> width]; an invalid or
\* truncated encoding decodes to (RuneError, 1), the empty string to (RuneError, 0).
DecodeRuneInString(str) ==
    IF Len(str) = 0 THEN [r |-> RuneError, size |-> 0]
    ELSE LET b0 == str[1] IN
         IF b0 < RuneSelf THEN [r |-> b0, size |-> 1]
         ELSE IF b0 >= 194 /\ b0 < 224 /\ Len(str) >= 2 /\ IsContinuation(str[2])
              THEN [r |-> (b0 - 192) * 64 + (str[2] - 128), size |-> 2]
         ELSE IF b0 >= 224 /\ b0 < 240 /\ Len(str) >= 3
                 /\ IsContinuation(str[2]) /\ IsContinuation(str[3])
                 /\ (b0 - 224) * 4096 + (str[2] - 128) * 64 + (str[3] - 128) >= 2048
              THEN [r |-> (b0 - 224) * 4096 + (str[2] - 128) * 64 + (str[3] - 128),
                    size |-> 3]
         ELSE [r |-> RuneError, size |-> 1]

\* utf8.DecodeLastRuneInString: walk back over at most three continuation
\* bytes to the start byte, decode there, and accept only a rune that ends
\* exactly at the end of the string.
DecodeLastRuneInString(str) ==
    LET end == Len(str) IN
    IF end = 0 THEN [r |-> RuneError, size |-> 0]
    ELSE IF str[end] < RuneSelf THEN [r |-> str[end], size |-> 1]
    ELSE LET lim == IF end - 4 < 0 THEN 0 ELSE end - 4
             starts == {i \in (lim + 1)..end : ~IsContinuation(str[i])}
             start == IF starts = {} THEN lim + 1
                      ELSE CHOOSE i \in starts : \A j \in starts : j <= i
             d == DecodeRuneInString(SubSeq(str, start, end))
         IN IF start + d.size - 1 # end THEN [r |-> RuneError, size |-> 1] ELSE d

\* unicode letters of the model's alphabet: A-Z, a-z, U+023A, U+2C65
IsLetter(r) == (r >= 65 /\ r <= 90) \/ (r >= 97 /\ r <= 122) \/ r = 570 \/ r = 11365
IsDigit(r) == r >= 48 /\ r <= 57

\* isTokenRune: letter, digit or underscore
isTokenRune(r) == IsLetter(r) \/ IsDigit(r) \/ r = 95

\* unicode.ToLower / unicode.ToUpper on the model's alphabet.  U+023A (two
\* bytes in UTF-8) and U+2C65 (three bytes) are a case pair.
ToLowerRune(r) ==
    IF r >= 65 /\ r <= 90 THEN r + 32 ELSE IF r = 570 THEN 11365 ELSE r
ToUpperRune(r) ==
    IF r >= 97 /\ r <= 122 THEN r - 32 ELSE IF r = 11365 THEN 570 ELSE r

RECURSIVE MapRunes(_, _)
\* `for _, r := range s { dst = utf8.AppendRune(dst, f(r)) }`
MapRunes(str, upper) ==
    IF Len(str) = 0 THEN <<>>
    ELSE LET d == DecodeRuneInString(str)
             r == IF upper THEN ToUpperRune(d.r) ELSE ToLowerRune(d.r)
         IN EncodeRune(r) \o MapRunes(SubSeq(str, d.size + 1, Len(str)), upper)

\* stringsutil.AppendLowercase(nil, s) / strings.ToLower
AppendLowercase(str) == MapRunes(str, FALSE)
\* strings.ToUpper
ToUpper(str) == MapRunes(str, TRUE)

-----------------------------------------------------------------------------
(* Text matching kernel *)

\* s[from:] has sub as a prefix (Go offsets)
HasPrefixAt(str, sub, from) ==
    /\ from + Len(sub) <= Len(str)
    /\ \A k \in 1..Len(sub) : str[from + k] = sub[k]

\* from + strings.Index(s[from:], sub), or -1 when sub does not occur
IndexFrom(str, sub, from) ==
    LET hits == {i \in from..(Len(str) - Len(sub)) : HasPrefixAt(str, sub, i)}
    IN IF hits = {} THEN -1 ELSE CHOOSE i \in hits : \A j \in hits : i <= j

\* the rune that ends at Go offset pos of s (pos > 0), as the matchers read it
RuneBefore(str, pos) ==
    IF str[pos] >= RuneSelf THEN DecodeLastRuneInString(SubSeq(str, 1, pos)).r
    ELSE str[pos]

\* the rune that starts at Go offset pos of s (pos < len(s))
RuneAt(str, pos) ==
    IF str[pos + 1] >= RuneSelf
    THEN DecodeRuneInString(SubSeq(str, pos + 1, Len(str))).r
    ELSE str[pos + 1]

isASCIILowercase(str) ==
    \A i \in 1..Len(str) : ~(str[i] >= RuneSelf \/ (str[i] >= 65 /\ str[i] <= 90))

\* mutant: a failed left-boundary check ends the search instead of resuming it
matchPrefixLoopNoRetry(str, prefix, startsWithToken, offset0) ==
    LET offset == IndexFrom(str, prefix, offset0) IN
    IF offset < 0 THEN FALSE
    ELSE IF startsWithToken /\ offset > 0
            /\ (RuneBefore(str, offset) = RuneError \/ isTokenRune(RuneBefore(str, offset)))
         THEN FALSE
    ELSE TRUE

RECURSIVE matchPrefixLoop(_, _, _, _)
matchPrefixLoop(str, prefix, startsWithToken, offset0) ==
    LET offset == IndexFrom(str, prefix, offset0) IN
    IF offset < 0 THEN FALSE
    ELSE IF startsWithToken /\ offset > 0
            /\ (RuneBefore(str, offset) = RuneError \/ isTokenRune(RuneBefore(str, offset)))
         THEN matchPrefixLoop(str, prefix, startsWithToken, offset + 1)
    ELSE TRUE

\* mutant: the empty prefix matches the empty string too
matchPrefixEmptyMatchesEmpty(str, prefix) ==
    IF Len(prefix) = 0 THEN TRUE
    ELSE IF Len(prefix) > Len(str) THEN FALSE
    ELSE matchPrefixLoop(str, prefix, isTokenRune(RuneAt(prefix, 0)), 0)

matchPrefix(str, prefix) ==
    IF Len(prefix) = 0 THEN Len(str) > 0
    ELSE IF Len(prefix) > Len(str) THEN FALSE
    ELSE matchPrefixLoop(str, prefix, isTokenRune(RuneAt(prefix, 0)), 0)

RECURSIVE getPhrasePosLoop(_, _, _, _, _)
\* mutant: the boundary after the occurrence is not checked
getPhrasePosLoopNoEndCheck(str, phrase, startsWithToken, endsWithToken, pos0) ==
    LET pos == IndexFrom(str, phrase, pos0) IN
    IF pos < 0 THEN -1
    ELSE IF startsWithToken /\ pos > 0
            /\ (RuneBefore(str, pos) = RuneError \/ isTokenRune(RuneBefore(str, pos)))
         THEN getPhrasePosLoop(str, phrase, startsWithToken, endsWithToken, pos + 1)
    ELSE pos

getPhrasePosLoop(str, phrase, startsWithToken, endsWithToken, pos0) ==
    LET pos == IndexFrom(str, phrase, pos0) IN
    IF pos < 0 THEN -1
    ELSE IF startsWithToken /\ pos > 0
            /\ (RuneBefore(str, pos) = RuneError \/ isTokenRune(RuneBefore(str, pos)))
         THEN getPhrasePosLoop(str, phrase, startsWithToken, endsWithToken, pos + 1)
    ELSE IF endsWithToken /\ pos + Len(phrase) < Len(str)
            /\ (RuneAt(str, pos + Len(phrase)) = RuneError
                \/ isTokenRune(RuneAt(str, pos + Len(phrase))))
         THEN getPhrasePosLoop(str, phrase, startsWithToken, endsWithToken, pos + 1)
    ELSE pos

getPhrasePos(str, phrase) ==
    IF Len(phrase) = 0 THEN 0
    ELSE IF Len(phrase) > Len(str) THEN -1
    ELSE getPhrasePosLoop(str, phrase,
                          isTokenRune(RuneAt(phrase, 0)),
                          isTokenRune(RuneBefore(phrase, Len(phrase))),
                          0)

matchPhrase(str, phrase) ==
    IF Len(phrase) = 0 THEN Len(str) = 0
    ELSE getPhrasePos(str, phrase) >= 0

matchAnyCasePhrase(str, phraseLowercase) ==
    IF Len(phraseLowercase) = 0 THEN Len(str) = 0
    ELSE IF Len(phraseLowercase) > Len(str) THEN FALSE
    ELSE IF isASCIILowercase(str) THEN matchPhrase(str, phraseLowercase)
    ELSE matchPhrase(AppendLowercase(str), phraseLowercase)

\* the text kernel harness at rest
KernelIdle ==
    /\ s = <<>>
    /\ needle = <<>>
    /\ res = [fn |-> "none", val |-> FALSE]

\* fs.streamIDs: a Go map that is nil until initStreamIDs assigns it
nilMap == [isNil |-> TRUE, ids |-> {}]
makeMap(ids) == [isNil |-> FALSE, ids |-> ids]

OnceIdle ==
    /\ fs = [isEmpty |-> TRUE, found |-> {}, streamIDs |-> nilMap,
             done |-> FALSE, mu |-> 0, searches |-> 0]
    /\ ap = <<>>

JournalIdle ==
    /\ jr = [entries |-> <<>>, data |-> <<>>, cut |-> 0, now |-> 0,
             includeEntryMetadata |-> FALSE]
    /\ jp = [pc |-> "idle"]

KeyIdle ==
    /\ kt = [byFields |-> 0, a |-> <<>>, b |-> <<>>, isConst |-> FALSE]
    /\ kr = [done |-> FALSE]

StatsIdle ==
    /\ ps = [byFields |-> 0, workersCount |-> 0, maxStateSize |-> 0]
    /\ stateSizeBudget = 0
    /\ shards = <<>>
    /\ wb = <<>>
    /\ cancelCalls = 0
    /\ stopCh = FALSE
    /\ fl = [pc |-> "idle"]
    /\ out = <<>>
    /\ single = <<>>

-----------------------------------------------------------------------------
(* Tokens and bloom filters *)

RECURSIVE tokenizeScan(_, _)
tokenizeScan(str, cur) ==
    IF Len(str) = 0 THEN (IF cur = <<>> THEN {} ELSE {cur})
    ELSE LET d == DecodeRuneInString(str)
             rest == SubSeq(str, d.size + 1, Len(str))
         IN IF isTokenRune(d.r)
            THEN tokenizeScan(rest, cur \o SubSeq(str, 1, d.size))
            ELSE (IF cur = <<>> THEN {} ELSE {cur}) \cup tokenizeScan(rest, <<>>)

\* tokenizeStrings(nil, []string{s}): the maximal runs of token runes of s
tokenizeStrings(str) == tokenizeScan(str, <<>>)

RECURSIVE getTokensSkipLast(_)
getTokensSkipLast(str) ==
    LET d == DecodeLastRuneInString(str) IN
    IF ~isTokenRune(d.r) THEN tokenizeStrings(str)
    ELSE getTokensSkipLast(SubSeq(str, 1, Len(str) - d.size))

-----------------------------------------------------------------------------
(* Column value decoders.  A fixed-width cell is modelled by the number    *)
(* (or the four octets) its bytes encode.                                  *)

RECURSIVE AppendUint(_)
\* strconv.AppendUint(nil, n, 10)
AppendUint(n) ==
    IF n < 10 THEN <<48 + n>> ELSE AppendUint(n \div 10) \o <<48 + (n % 10)>>

toUint8String(v) == AppendUint(v)
toUint16String(v) == AppendUint(v)
toUint32String(v) == AppendUint(v)
toUint64String(v) == AppendUint(v)

\* a Float64 cell h stands for the number h / 2; its canonical form has no
\* trailing zeros and -0 is written 0
toFloat64String(h) ==
    LET a == IF h < 0 THEN 0 - h ELSE h
        sign == IF h < 0 THEN <<45>> ELSE <<>>
        frac == IF a % 2 = 1 THEN <<46, 53>> ELSE <<>>
    IN sign \o AppendUint(a \div 2) \o frac

\* dotted quad
toIPv4String(v) ==
    AppendUint(v[1]) \o <<46>> \o AppendUint(v[2]) \o <<46>>
        \o AppendUint(v[3]) \o <<46>> \o AppendUint(v[4])

\* a TimestampISO8601 cell is the number of nanoseconds since the epoch;
\* the model covers the first ten seconds: 1970-01-01T00:00:0S.mmmZ
toTimestampISO8601String(v) ==
    LET sec == v \div 1000000000
        ms == (v \div 1000000) % 1000
    IN <<49, 57, 55, 48, 45, 48, 49, 45, 48, 49, 84, 48, 48, 58, 48, 48, 58, 48>>
       \o <<48 + sec, 46, 48 + (ms \div 100), 48 + ((ms \div 10) % 10), 48 + (ms % 10), 90>>

\* the canonical string of a cell of a column of the given valueType
canonicalString(valueType, v) ==
    CASE valueType = "String" -> v
      [] valueType = "Uint8" -> toUint8String(v)
      [] valueType = "Uint16" -> toUint16String(v)
      [] valueType = "Uint32" -> toUint32String(v)
      [] valueType = "Uint64" -> toUint64String(v)
      [] valueType = "Float64" -> toFloat64String(v)
      [] valueType = "IPv4" -> toIPv4String(v)
      [] valueType = "TimestampISO8601" -> toTimestampISO8601String(v)

-----------------------------------------------------------------------------
(* Parsers of the needle *)

AllDigits(str) == \A i \in 1..Len(str) : IsDigit(str[i])

RECURSIVE DigitsValue(_)
DigitsValue(str) ==
    IF Len(str) = 0 THEN 0
    ELSE DigitsValue(SubSeq(str, 1, Len(str) - 1)) * 10 + (str[Len(str)] - 48)

\* tryParseUint64: a non-empty run of decimal digits
tryParseUint64(str) ==
    IF Len(str) > 0 /\ AllDigits(str) THEN [ok |-> TRUE, n |-> DigitsValue(str)]
    ELSE [ok |-> FALSE, n |-> 0]

IndexByte(str, b) ==
    LET hits == {i \in 0..(Len(str) - 1) : str[i + 1] = b}
    IN IF hits = {} THEN -1 ELSE CHOOSE i \in hits : \A j \in hits : i <= j

RECURSIVE Pow10(_)
Pow10(k) == IF k = 0 THEN 1 ELSE 10 * Pow10(k - 1)

\* tryParseFloat64: [-]digits[.digits]; the value is (neg ? -1 : 1) * num / 10^places
tryParseFloat64(str) ==
    LET neg == Len(str) > 0 /\ str[1] = 45
        body == IF neg THEN SubSeq(str, 2, Len(str)) ELSE str
        dot == IndexByte(body, 46)
        int == IF dot < 0 THEN body ELSE SubSeq(body, 1, dot)
        frac == IF dot < 0 THEN <<>> ELSE SubSeq(body, dot + 2, Len(body))
        ok == /\ Len(int) > 0 /\ AllDigits(int)
              /\ (dot >= 0 => Len(frac) > 0 /\ AllDigits(frac))
    IN IF ok THEN [ok |-> TRUE, neg |-> neg, num |-> DigitsValue(int \o frac),
                   places |-> Len(frac)]
       ELSE [ok |-> FALSE, neg |-> FALSE, num |-> 0, places |-> 0]

RECURSIVE SplitDots(_)
SplitDots(str) ==
    LET dot == IndexByte(str, 46) IN
    IF dot < 0 THEN <<str>>
    ELSE <<SubSeq(str, 1, dot)>> \o SplitDots(SubSeq(str, dot + 2, Len(str)))

\* tryParseIPv4: four decimal octets separated by dots
tryParseIPv4(str) ==
    LET parts == SplitDots(str)
        ok == /\ Len(parts) = 4
              /\ \A i \in 1..4 : /\ Len(parts[i]) > 0 /\ Len(parts[i]) <= 3
                                 /\ AllDigits(parts[i])
                                 /\ DigitsValue(parts[i]) <= 255
    IN IF ok THEN [ok |-> TRUE, v |-> [i \in 1..4 |-> DigitsValue(parts[i])]]
       ELSE [ok |-> FALSE, v |-> <<0, 0, 0, 0>>]

\* tryParseTimestampISO8601: YYYY-MM-DDThh:mm:ss.mmmZ; n is the value for a
\* timestamp of the first ten seconds of the epoch and -1 beyond them
tryParseTimestampISO8601(str) ==
    LET punct == {5, 8, 11, 14, 17, 20, 24}
        ok == /\ Len(str) = 24
              /\ str[5] = 45 /\ str[8] = 45 /\ str[11] = 84 /\ str[14] = 58
              /\ str[17] = 58 /\ str[20] = 46 /\ str[24] = 90
              /\ \A i \in (1..24) \ punct : IsDigit(str[i])
        early == ok /\ SubSeq(str, 1, 18) = SubSeq(toTimestampISO8601String(0), 1, 18)
    IN [ok |-> ok,
        n |-> IF early THEN (str[19] - 48) * 1000000000
                            + DigitsValue(SubSeq(str, 21, 23)) * 1000000
              ELSE -1]

-----------------------------------------------------------------------------
(* Blocks *)

Rows == 1..MaxRows

\* blockSearch as the filters see it, for the one field the filter names:
\* constValue is getConstColumnValue (empty when the field is no const column),
\* hasColumn tells whether getColumnHeader finds a header; valueType, values,
\* valuesDict, minValue and maxValue are the header and its cells; bloomAll
\* tells whether the column's bloom filter is saturated (reports every token).
Block(constValue, hasColumn, valueType, values, valuesDict, bloomAll) ==
    [streamID |-> 1, constValue |-> constValue, hasColumn |-> hasColumn,
     valueType |-> valueType, values |-> values, valuesDict |-> valuesDict,
     bloomAll |-> bloomAll]

IsUintType(valueType) == valueType \in {"Uint8", "Uint16", "Uint32", "Uint64"}

Max(S) == CHOOSE x \in S : \A y \in S : y <= x
Min(S) == CHOOSE x \in S : \A y \in S : x <= y

\* columnHeader.minValue / maxValue of an unsigned integer column
minValue(b) == Min({b.values[i] : i \in DOMAIN b.values})
maxValue(b) == Max({b.values[i] : i \in DOMAIN b.values})

\* the tokens the block writer put into the column's bloom filter: the
\* tokens of every cell's canonical string
columnTokens(b) ==
    UNION {tokenizeStrings(canonicalString(b.valueType, b.values[i])) : i \in DOMAIN b.values}

\* bloomFilter.containsAll: no false negatives, possibly false positives
containsAll(b, tokens) == b.bloomAll \/ tokens \subseteq columnTokens(b)

matchBloomFilterAllTokens(b, tokens) ==
    IF tokens = {} THEN TRUE ELSE containsAll(b, tokens)

\* the encoded values of the column's cells
cellValues(b) == {b.values[i] : i \in DOMAIN b.values}

\* visitValues: the bits of the rows for which f returns false are cleared;
\* the callback f is given as the function from encoded value to its result
visitValues(b, m, f) ==
    IF m = {} THEN m ELSE {i \in m : f[b.values[i]]}

resetBits == {}

-----------------------------------------------------------------------------
(* Per-encoding matchers.  Each returns the bitmap it leaves.              *)

\* matchBinaryValue: exact match of the cell against the encoded needle
matchBinaryValue(b, m, binValue, tokens) ==
    IF ~matchBloomFilterAllTokens(b, tokens) THEN resetBits
    ELSE LET f == [v \in cellValues(b) |-> v = binValue] IN visitValues(b, m, f)

\* matchUint8ByExactValue .. matchUint64ByExactValue
matchUintByExactValue(b, m, phrase, tokens) ==
    LET p == tryParseUint64(phrase) IN
    IF ~p.ok \/ p.n < minValue(b) \/ p.n > maxValue(b) THEN resetBits
    ELSE matchBinaryValue(b, m, p.n, tokens)

matchFloat64ByExactValue(b, m, phrase, tokens) ==
    LET p == tryParseFloat64(phrase) IN
    IF ~p.ok THEN resetBits
    ELSE IF ~matchBloomFilterAllTokens(b, tokens) THEN resetBits
    ELSE LET f == [v \in cellValues(b) |-> v * Pow10(p.places) = (IF p.neg THEN 0 - 2 * p.num ELSE 2 * p.num)]
         IN visitValues(b, m, f)

matchIPv4ByExactValue(b, m, phrase, tokens) ==
    LET p == tryParseIPv4(phrase) IN
    IF ~p.ok THEN resetBits ELSE matchBinaryValue(b, m, p.v, tokens)

matchTimestampISO8601ByExactValue(b, m, phrase, tokens) ==
    LET p == tryParseTimestampISO8601(phrase) IN
    IF ~p.ok THEN resetBits ELSE matchBinaryValue(b, m, p.n, tokens)

matchTimestampISO8601ByPrefix(b, m, prefix, tokens) ==
    IF prefix = <<>> THEN m
    ELSE IF ~matchBloomFilterAllTokens(b, tokens) THEN resetBits
    ELSE LET f == [v \in cellValues(b) |-> matchPrefix(toTimestampISO8601String(v), prefix)]
         IN visitValues(b, m, f)

matchTimestampISO8601ByPhrase(b, m, phrase, tokens) ==
    IF tryParseTimestampISO8601(phrase).ok
    THEN matchTimestampISO8601ByExactValue(b, m, phrase, tokens)
    ELSE IF ~matchBloomFilterAllTokens(b, tokens) THEN resetBits
    ELSE LET f == [v \in cellValues(b) |-> matchPhrase(toTimestampISO8601String(v), phrase)]
         IN visitValues(b, m, f)

matchIPv4ByPrefix(b, m, prefix, tokens) ==
    IF prefix = <<>> THEN m
    ELSE IF ~matchBloomFilterAllTokens(b, tokens) THEN resetBits
    ELSE LET f == [v \in cellValues(b) |-> matchPrefix(toIPv4String(v), prefix)] IN visitValues(b, m, f)

\* mutant: every phrase is handed to the exact-value matcher
matchIPv4ByPhraseExactOnly(b, m, phrase, tokens) ==
    matchIPv4ByExactValue(b, m, phrase, tokens)

matchIPv4ByPhrase(b, m, phrase, tokens) ==
    IF tryParseIPv4(phrase).ok THEN matchIPv4ByExactValue(b, m, phrase, tokens)
    ELSE IF ~matchBloomFilterAllTokens(b, tokens) THEN resetBits
    ELSE LET f == [v \in cellValues(b) |-> matchPhrase(toIPv4String(v), phrase)] IN visitValues(b, m, f)

\* strings.HasPrefix(prefix, "e") || strings.HasPrefix(prefix, "E")
StartsWithExponent(prefix) == Len(prefix) > 0 /\ prefix[1] \in {101, 69}

\* the needle is one of ".", "+", "-"
IsSignOrDot(str) == str \in {<<46>>, <<43>>, <<45>>}

matchFloat64ByPrefix(b, m, prefix, tokens) ==
    IF prefix = <<>> THEN m
    ELSE IF ~tryParseFloat64(prefix).ok /\ ~IsSignOrDot(prefix) /\ ~StartsWithExponent(prefix)
         THEN resetBits
    ELSE IF ~matchBloomFilterAllTokens(b, tokens) THEN resetBits
    ELSE LET f == [v \in cellValues(b) |-> matchPrefix(toFloat64String(v), prefix)] IN visitValues(b, m, f)

matchFloat64ByPhrase(b, m, phrase, tokens) ==
    LET n == IndexByte(phrase, 46) IN
    IF ~tryParseFloat64(phrase).ok /\ ~IsSignOrDot(phrase) THEN resetBits
    ELSE IF n > 0 /\ n < Len(phrase) - 1
         THEN matchFloat64ByExactValue(b, m, phrase, tokens)
    ELSE IF ~matchBloomFilterAllTokens(b, tokens) THEN resetBits
    ELSE LET f == [v \in cellValues(b) |-> matchPhrase(toFloat64String(v), phrase)] IN visitValues(b, m, f)

\* mutant: with no matching dictionary entry the bitmap is left as it is
matchEncodedValuesDictKeepsOnNoCode(b, m, encodedValues) ==
    IF encodedValues = {} THEN m
    ELSE LET f == [v \in cellValues(b) |-> v \in encodedValues] IN visitValues(b, m, f)

\* the codes of the dictionary entries that are collected, then the rows
\* whose cell is one of them; a cell is the 0-based index of its entry
matchEncodedValuesDict(b, m, encodedValues) ==
    IF encodedValues = {} THEN resetBits
    ELSE LET f == [v \in cellValues(b) |-> v \in encodedValues] IN visitValues(b, m, f)

matchValuesDictByAnyCasePhrase(b, m, phraseLowercase) ==
    matchEncodedValuesDict(b, m,
        {i - 1 : i \in {j \in DOMAIN b.valuesDict :
                          matchAnyCasePhrase(b.valuesDict[j], phraseLowercase)}})

matchValuesDictByPrefix(b, m, prefix) ==
    matchEncodedValuesDict(b, m,
        {i - 1 : i \in {j \in DOMAIN b.valuesDict : matchPrefix(b.valuesDict[j], prefix)}})

matchValuesDictByPhrase(b, m, phrase) ==
    matchEncodedValuesDict(b, m,
        {i - 1 : i \in {j \in DOMAIN b.valuesDict : matchPhrase(b.valuesDict[j], phrase)}})

matchStringByAnyCasePhrase(b, m, phraseLowercase) ==
    LET f == [v \in cellValues(b) |-> matchAnyCasePhrase(v, phraseLowercase)] IN visitValues(b, m, f)

\* mutant: every row of the block is visited and the bits of the matching rows are set
matchStringByPrefixAllRows(b, m, prefix, tokens) ==
    IF ~matchBloomFilterAllTokens(b, tokens) THEN resetBits
    ELSE {i \in DOMAIN b.values : matchPrefix(b.values[i], prefix)}

matchStringByPrefix(b, m, prefix, tokens) ==
    IF ~matchBloomFilterAllTokens(b, tokens) THEN resetBits
    ELSE LET f == [v \in cellValues(b) |-> matchPrefix(v, prefix)] IN visitValues(b, m, f)

matchStringByPhrase(b, m, phrase, tokens) ==
    IF ~matchBloomFilterAllTokens(b, tokens) THEN resetBits
    ELSE LET f == [v \in cellValues(b) |-> matchPhrase(v, phrase)] IN visitValues(b, m, f)

\* mutant: a prefix that parses to maxValue itself clears all bits
matchUintByPrefixClearsAtMax(b, m, prefix, toString) ==
    LET p == tryParseUint64(prefix) IN
    IF prefix = <<>> THEN m
    ELSE IF ~p.ok \/ p.n >= maxValue(b) THEN resetBits
    ELSE LET f == [v \in cellValues(b) |-> matchPrefix(toString[v], prefix)] IN visitValues(b, m, f)

\* the common body of matchUint8ByPrefix .. matchUint64ByPrefix
matchUintByPrefix(b, m, prefix, toString) ==
    LET p == tryParseUint64(prefix) IN
    IF prefix = <<>> THEN m
    ELSE IF ~p.ok \/ p.n > maxValue(b) THEN resetBits
    ELSE LET f == [v \in cellValues(b) |-> matchPrefix(toString[v], prefix)] IN visitValues(b, m, f)

matchUint8ByPrefix(b, m, prefix) ==
    matchUintByPrefix(b, m, prefix, [v \in cellValues(b) |-> toUint8String(v)])
matchUint16ByPrefix(b, m, prefix) ==
    matchUintByPrefix(b, m, prefix, [v \in cellValues(b) |-> toUint16String(v)])
matchUint32ByPrefix(b, m, prefix) ==
    matchUintByPrefix(b, m, prefix, [v \in cellValues(b) |-> toUint32String(v)])
matchUint64ByPrefix(b, m, prefix) ==
    matchUintByPrefix(b, m, prefix, [v \in cellValues(b) |-> toUint64String(v)])

-----------------------------------------------------------------------------
(* The filters' apply.  Each returns the bitmap it leaves in bm.           *)

\* mutant: the set of stream IDs is consulted for the empty filter as well
streamFilterApplyNoEmptyCheck(b, m, isEmpty, streamIDs) ==
    IF b.streamID \notin streamIDs THEN resetBits
    ELSE m

streamFilterApply(b, m, isEmpty, streamIDs) ==
    IF isEmpty THEN m
    ELSE IF b.streamID \notin streamIDs THEN resetBits
    ELSE m

prefixFilterApply(b, m, prefix) ==
    LET v == b.constValue
        tokens == getTokensSkipLast(prefix)
        vt == b.valueType
    IN IF v # <<>> THEN (IF ~matchPrefix(v, prefix) THEN resetBits ELSE m)
       ELSE IF ~b.hasColumn THEN resetBits
       ELSE CASE vt = "String" -> matchStringByPrefix(b, m, prefix, tokens)
              [] vt = "Dict" -> matchValuesDictByPrefix(b, m, prefix)
              [] vt = "Uint8" -> matchUint8ByPrefix(b, m, prefix)
              [] vt = "Uint16" -> matchUint16ByPrefix(b, m, prefix)
              [] vt = "Uint32" -> matchUint32ByPrefix(b, m, prefix)
              [] vt = "Uint64" -> matchUint64ByPrefix(b, m, prefix)
              [] vt = "Float64" -> matchFloat64ByPrefix(b, m, prefix, tokens)
              [] vt = "IPv4" -> matchIPv4ByPrefix(b, m, prefix, tokens)
              [] vt = "TimestampISO8601" -> matchTimestampISO8601ByPrefix(b, m, prefix, tokens)

anyCasePhraseFilterApply(b, m, phrase) ==
    LET phraseLowercase == AppendLowercase(phrase)
        v == b.constValue
        tokens == tokenizeStrings(phrase)
        vt == b.valueType
    IN IF v # <<>> THEN (IF ~matchAnyCasePhrase(v, phraseLowercase) THEN resetBits ELSE m)
       ELSE IF ~b.hasColumn THEN (IF Len(phraseLowercase) > 0 THEN resetBits ELSE m)
       ELSE CASE vt = "String" -> matchStringByAnyCasePhrase(b, m, phraseLowercase)
              [] vt = "Dict" -> matchValuesDictByAnyCasePhrase(b, m, phraseLowercase)
              [] IsUintType(vt) -> matchUintByExactValue(b, m, phraseLowercase, tokens)
              [] vt = "Float64" -> matchFloat64ByPhrase(b, m, phraseLowercase, tokens)
              [] vt = "IPv4" -> matchIPv4ByPhrase(b, m, phraseLowercase, tokens)
              [] vt = "TimestampISO8601" ->
                    matchTimestampISO8601ByPhrase(b, m, ToUpper(phrase), tokens)

\* phraseFilter.apply on a block that has a column header for the field
phraseFilterApplyColumn(b, m, phrase) ==
    LET tokens == tokenizeStrings(phrase)
        vt == b.valueType
    IN CASE vt = "String" -> matchStringByPhrase(b, m, phrase, tokens)
         [] vt = "Dict" -> matchValuesDictByPhrase(b, m, phrase)
         [] IsUintType(vt) -> matchUintByExactValue(b, m, phrase, tokens)
         [] vt = "Float64" -> matchFloat64ByPhrase(b, m, phrase, tokens)
         [] vt = "IPv4" -> matchIPv4ByPhrase(b, m, phrase, tokens)
         [] vt = "TimestampISO8601" -> matchTimestampISO8601ByPhrase(b, m, phrase, tokens)

\* mutant: the const-column test is inverted
phraseFilterApplyConstInverted(b, m, phrase) ==
    LET v == b.constValue
    IN IF v # <<>> THEN (IF matchPhrase(v, phrase) THEN resetBits ELSE m)
       ELSE IF ~b.hasColumn THEN (IF Len(phrase) > 0 THEN resetBits ELSE m)
       ELSE phraseFilterApplyColumn(b, m, phrase)

\* mutant: a missing column clears all bits whatever the phrase, as in prefixFilter.apply
phraseFilterApplyAbsentClears(b, m, phrase) ==
    LET v == b.constValue
    IN IF v # <<>> THEN (IF ~matchPhrase(v, phrase) THEN resetBits ELSE m)
       ELSE IF ~b.hasColumn THEN resetBits
       ELSE phraseFilterApplyColumn(b, m, phrase)

phraseFilterApply(b, m, phrase) ==
    LET v == b.constValue
    IN IF v # <<>> THEN (IF ~matchPhrase(v, phrase) THEN resetBits ELSE m)
       ELSE IF ~b.hasColumn THEN (IF Len(phrase) > 0 THEN resetBits ELSE m)
       ELSE phraseFilterApplyColumn(b, m, phrase)

-----------------------------------------------------------------------------
(* Harness of the filter evaluator: a block, an input bitmap, and filters  *)
(* applied to it one after the other.                                      *)

NoBlock == Block(<<>>, FALSE, "none", <<>>, <<>>, FALSE)
NoFilter == [kind |-> "none", needle |-> <<>>, isEmpty |-> FALSE, streamIDs |-> {}]

\* "", "a", "A", "a.a", "aa"
StringCells == {<<>>, <<97>>, <<65>>, <<97, 46, 97>>, <<97, 97>>}
\* "a", "A", "a.a", "1"
ConstValues == {<<97>>, <<65>>, <<97, 46, 97>>, <<49>>}
\* ["", "a"] and ["a.a", "A"]
ValuesDicts == {<< <<>>, <<97>> >>, << <<97, 46, 97>>, <<65>> >>}
UintCells == {1, 12}
\* 1, 1.5, -1
Float64Cells == {2, 3, -2}
\* 10.0.0.1, 192.168.1.23, 10.1.23.4
IPv4Cells == {<<10, 0, 0, 1>>, <<192, 168, 1, 23>>, <<10, 1, 23, 4>>}
\* 1970-01-01T00:00:00.000Z, 1970-01-01T00:00:01.001Z
TimestampCells == {0, 1001000000}

ColumnBlocks(valueType, cells, bloomAlls) ==
    {Block(<<>>, TRUE, valueType, values, <<>>, ba) :
        values \in [Rows -> cells], ba \in bloomAlls}

Blocks ==
    {Block(v, FALSE, "none", <<>>, <<>>, FALSE) : v \in ConstValues}
    \cup {Block(<<>>, FALSE, "none", <<>>, <<>>, FALSE)}
    \cup ColumnBlocks("String", StringCells, BOOLEAN)
    \cup {Block(<<>>, TRUE, "Dict", values, d, FALSE) :
            values \in [Rows -> {0, 1}], d \in ValuesDicts}
    \cup UNION {ColumnBlocks(vt, UintCells, {FALSE}) :
                  vt \in {"Uint8", "Uint16", "Uint32", "Uint64"}}
    \cup ColumnBlocks("Float64", Float64Cells, BOOLEAN)
    \cup ColumnBlocks("IPv4", IPv4Cells, BOOLEAN)
    \cup ColumnBlocks("TimestampISO8601", TimestampCells, BOOLEAN)

\* the phrases and prefixes tried on a block, by the kind of its column
\* "", "a", "A", "a.a", ".a"
TextNeedles == {<<>>, <<97>>, <<65>>, <<97, 46, 97>>, <<46, 97>>}
\* "", "a", "1", "12", "2"
UintNeedles == {<<>>, <<97>>, <<49>>, <<49, 50>>, <<50>>}
\* "", "a", "1", "1.5", "1.", "-"
Float64Needles == {<<>>, <<97>>, <<49>>, <<49, 46, 53>>, <<49, 46>>, <<45>>}
\* "", "a", "1", "1.23", "10.0.0.1"
IPv4Needles == {<<>>, <<97>>, <<49>>, <<49, 46, 50, 51>>, <<49, 48, 46, 48, 46, 48, 46, 49>>}
\* "", "a", "01", "000z", "000Z", "1970-01-01T00:00:00.000Z"
TimestampNeedles ==
    {<<>>, <<97>>, <<48, 49>>, <<48, 48, 48, 122>>, <<48, 48, 48, 90>>,
     toTimestampISO8601String(0)}

FilterNeedles(b) ==
    IF ~b.hasColumn \/ b.valueType \in {"String", "Dict"} THEN TextNeedles
    ELSE IF IsUintType(b.valueType) THEN UintNeedles
    ELSE IF b.valueType = "Float64" THEN Float64Needles
    ELSE IF b.valueType = "IPv4" THEN IPv4Needles
    ELSE TimestampNeedles

\* the sets of stream IDs idb.searchStreamIDs may resolve a stream filter to
StreamIDSets == {{}, {1}, {2}}

FilterIdle ==
    /\ bs = NoBlock
    /\ bm = {}
    /\ bmIn = {}
    /\ flt = NoFilter

FilterInit ==
    /\ bs \in Blocks
    /\ bm \in SUBSET Rows
    /\ bmIn = bm
    /\ flt = NoFilter
    /\ KernelIdle
    /\ StatsIdle
    /\ OnceIdle
    /\ KeyIdle
    /\ JournalIdle

ApplyStreamFilter ==
    /\ \E isEmpty \in BOOLEAN, ids \in StreamIDSets :
          /\ flt' = [kind |-> "stream", needle |-> <<>>, isEmpty |-> isEmpty,
                     streamIDs |-> ids]
          /\ bm' = streamFilterApply(bs, bm, isEmpty, ids)
    /\ bmIn' = bm
    /\ UNCHANGED <<bs, kernelVars, statsVars, onceVars, keyVars, journalVars>>

ApplyPrefixFilter ==
    /\ \E prefix \in FilterNeedles(bs) :
          /\ flt' = [NoFilter EXCEPT !.kind = "prefix", !.needle = prefix]
          /\ bm' = prefixFilterApply(bs, bm, prefix)
    /\ bmIn' = bm
    /\ UNCHANGED <<bs, kernelVars, statsVars, onceVars, keyVars, journalVars>>

ApplyPhraseFilter ==
    /\ \E phrase \in FilterNeedles(bs) :
          /\ flt' = [NoFilter EXCEPT !.kind = "phrase", !.needle = phrase]
          /\ bm' = phraseFilterApply(bs, bm, phrase)
    /\ bmIn' = bm
    /\ UNCHANGED <<bs, kernelVars, statsVars, onceVars, keyVars, journalVars>>

ApplyAnyCasePhraseFilter ==
    /\ \E phrase \in FilterNeedles(bs) :
          /\ flt' = [NoFilter EXCEPT !.kind = "anyCasePhrase", !.needle = phrase]
          /\ bm' = anyCasePhraseFilterApply(bs, bm, phrase)
    /\ bmIn' = bm
    /\ UNCHANGED <<bs, kernelVars, statsVars, onceVars, keyVars, journalVars>>

FilterNext ==
    \/ ApplyStreamFilter
    \/ ApplyPrefixFilter
    \/ ApplyPhraseFilter
    \/ ApplyAnyCasePhraseFilter

SpecFilter == FilterInit /\ [][FilterNext]_vars

-----------------------------------------------------------------------------
(* One stream filter shared by concurrent apply calls (SpecOnce) *)

\* number of goroutines that call apply on the same streamFilter
MaxCallers == 2
\* number of apply calls of each goroutine
MaxApplyCalls == 2

Callers == 1..MaxCallers
StreamIDs == {1, 2}

idleApply == [pc |-> "idle", streamID |-> 0, bmIn |-> {}, bm |-> {},
              todo |-> {}, m |-> {}, seen |-> nilMap, ncalls |-> 0]

\* a fresh streamFilter: nothing is resolved, the Once has not run;
\* fs.found is what idb.searchStreamIDs returns for fs.tenantIDs and fs.f
OnceInit ==
    /\ \E isEmpty \in BOOLEAN, found \in SUBSET StreamIDs :
          fs = [isEmpty |-> isEmpty, found |-> found, streamIDs |-> nilMap,
                done |-> FALSE, mu |-> 0, searches |-> 0]
    /\ ap = [c \in Callers |-> idleApply]
    /\ KernelIdle
    /\ FilterIdle
    /\ StatsIdle
    /\ KeyIdle
    /\ JournalIdle

\* apply is entered; the empty filter returns at once
ApplyEnter(c) ==
    /\ ap[c].pc = "idle"
    /\ ap[c].ncalls < MaxApplyCalls
    /\ \E sid \in StreamIDs, bits \in {{1}, Rows} :
          ap' = [ap EXCEPT ![c] =
                    [idleApply EXCEPT !.pc = IF fs.isEmpty THEN "done" ELSE "do",
                                      !.streamID = sid, !.bmIn = bits, !.bm = bits,
                                      !.ncalls = ap[c].ncalls + 1]]
    /\ UNCHANGED fs
    /\ UNCHANGED <<kernelVars, filterVars, statsVars, keyVars, journalVars>>

\* Once.Do: the fast path reads the done flag
OnceDo(c) ==
    /\ ap[c].pc = "do"
    /\ ap' = [ap EXCEPT ![c].pc = IF fs.done THEN "load" ELSE "lock"]
    /\ UNCHANGED fs
    /\ UNCHANGED <<kernelVars, filterVars, statsVars, keyVars, journalVars>>

\* Once.doSlow: the mutex of the Once is taken
OnceLock(c) ==
    /\ ap[c].pc = "lock"
    /\ fs.mu = 0
    /\ fs' = [fs EXCEPT !.mu = c]
    /\ ap' = [ap EXCEPT ![c].pc = "check"]
    /\ UNCHANGED <<kernelVars, filterVars, statsVars, keyVars, journalVars>>

\* mutant: the function is run by every goroutine that reaches the slow path
onceSlowRunsAlways(done) == TRUE

\* Once.doSlow: under the mutex the function runs only if it has not run yet
onceSlowRuns(done) == ~done

OnceCheck(c) ==
    /\ ap[c].pc = "check"
    /\ IF onceSlowRuns(fs.done)
         THEN /\ ap' = [ap EXCEPT ![c].pc = "search"]
              /\ UNCHANGED fs
         ELSE /\ ap' = [ap EXCEPT ![c].pc = "load"]
              /\ fs' = [fs EXCEPT !.mu = 0]
    /\ UNCHANGED <<kernelVars, filterVars, statsVars, keyVars, journalVars>>

\* initStreamIDs: the index is searched and an empty local map is made
InitSearch(c) ==
    /\ ap[c].pc = "search"
    /\ fs' = [fs EXCEPT !.searches = fs.searches + 1]
    /\ ap' = [ap EXCEPT ![c].pc = "fill", ![c].todo = fs.found, ![c].m = {}]
    /\ UNCHANGED <<kernelVars, filterVars, statsVars, keyVars, journalVars>>

\* initStreamIDs: one stream ID is put into the local map; after the last
\* one the map is assigned to fs.streamIDs
InitFill(c) ==
    /\ ap[c].pc = "fill"
    /\ IF ap[c].todo # {}
         THEN /\ ap' = [ap EXCEPT ![c].todo = ap[c].todo \ {Min(ap[c].todo)},
                                   ![c].m = ap[c].m \cup {Min(ap[c].todo)}]
              /\ UNCHANGED fs
         ELSE /\ fs' = [fs EXCEPT !.streamIDs = makeMap(ap[c].m)]
              /\ ap' = [ap EXCEPT ![c].pc = "store"]
    /\ UNCHANGED <<kernelVars, filterVars, statsVars, keyVars, journalVars>>

\* Once.doSlow: the deferred store of the done flag
OnceStore(c) ==
    /\ ap[c].pc = "store"
    /\ fs' = [fs EXCEPT !.done = TRUE]
    /\ ap' = [ap EXCEPT ![c].pc = "unlock"]
    /\ UNCHANGED <<kernelVars, filterVars, statsVars, keyVars, journalVars>>

\* Once.doSlow: the deferred unlock
OnceUnlock(c) ==
    /\ ap[c].pc = "unlock"
    /\ fs' = [fs EXCEPT !.mu = 0]
    /\ ap' = [ap EXCEPT ![c].pc = "load"]
    /\ UNCHANGED <<kernelVars, filterVars, statsVars, keyVars, journalVars>>

\* getStreamIDs returns fs.streamIDs
GetStreamIDs(c) ==
    /\ ap[c].pc = "load"
    /\ ap' = [ap EXCEPT ![c].pc = "test", ![c].seen = fs.streamIDs]
    /\ UNCHANGED fs
    /\ UNCHANGED <<kernelVars, filterVars, statsVars, keyVars, journalVars>>

\* apply looks the block's streamID up in the map it got (a nil map holds no key)
ApplyTest(c) ==
    /\ ap[c].pc = "test"
    /\ ap' = [ap EXCEPT ![c].pc = "done",
                         ![c].bm = IF ap[c].streamID \notin ap[c].seen.ids
                                   THEN resetBits ELSE ap[c].bmIn]
    /\ UNCHANGED fs
    /\ UNCHANGED <<kernelVars, filterVars, statsVars, keyVars, journalVars>>

ApplyReturn(c) ==
    /\ ap[c].pc = "done"
    /\ ap' = [ap EXCEPT ![c] = [idleApply EXCEPT !.ncalls = ap[c].ncalls]]
    /\ UNCHANGED fs
    /\ UNCHANGED <<kernelVars, filterVars, statsVars, keyVars, journalVars>>

OnceNext ==
    \/ \E c \in Callers : ApplyEnter(c)
    \/ \E c \in Callers : OnceDo(c)
    \/ \E c \in Callers : OnceLock(c)
    \/ \E c \in Callers : OnceCheck(c)
    \/ \E c \in Callers : InitSearch(c)
    \/ \E c \in Callers : InitFill(c)
    \/ \E c \in Callers : OnceStore(c)
    \/ \E c \in Callers : OnceUnlock(c)
    \/ \E c \in Callers : GetStreamIDs(c)
    \/ \E c \in Callers : ApplyTest(c)
    \/ \E c \in Callers : ApplyReturn(c)

SpecOnce == OnceInit /\ [][OnceNext]_vars

-----------------------------------------------------------------------------
(* Harness of the text kernel: the matchers applied to every string and    *)
(* needle over a small alphabet of runes.                                  *)

\* 'a', 'A', '.', U+023A, U+2C65, U+FFFD
Alphabet == {97, 65, 46, 570, 11365, 65533}

RECURSIVE RuneStrings(_)
\* the UTF-8 strings of at most n runes over Alphabet
RuneStrings(n) ==
    IF n = 0 THEN {<<>>}
    ELSE LET shorter == RuneStrings(n - 1)
         IN shorter \cup {EncodeRune(r) \o t : r \in Alphabet, t \in shorter}

\* "foo-bar", "foobar", "xfoo", "xabcy", "x.abcy", "xabc.abcy"
ExampleStrs ==
    {<<102, 111, 111, 45, 98, 97, 114>>, <<102, 111, 111, 98, 97, 114>>,
     <<120, 102, 111, 111>>, <<120, 97, 98, 99, 121>>, <<120, 46, 97, 98, 99, 121>>,
     <<120, 97, 98, 99, 46, 97, 98, 99, 121>>}
\* "foo", "abc"
ExampleNeedles == {<<102, 111, 111>>, <<97, 98, 99>>}

Strs == RuneStrings(MaxStrRunes) \cup ExampleStrs
Needles == RuneStrings(MaxNeedleRunes) \cup ExampleNeedles

KernelInit ==
    /\ s \in Strs
    /\ needle \in Needles
    /\ res = [fn |-> "none", val |-> FALSE]
    /\ FilterIdle
    /\ StatsIdle
    /\ OnceIdle
    /\ KeyIdle
    /\ JournalIdle

CallMatchPhrase ==
    /\ res.fn = "none"
    /\ res' = [fn |-> "matchPhrase", val |-> matchPhrase(s, needle)]
    /\ UNCHANGED <<s, needle>>
    /\ UNCHANGED <<filterVars, statsVars, onceVars, keyVars, journalVars>>

CallMatchPrefix ==
    /\ res.fn = "none"
    /\ res' = [fn |-> "matchPrefix", val |-> matchPrefix(s, needle)]
    /\ UNCHANGED <<s, needle>>
    /\ UNCHANGED <<filterVars, statsVars, onceVars, keyVars, journalVars>>

\* the caller hands matchAnyCasePhrase the lowercased phrase
\* (anyCasePhraseFilter.getPhraseLowercase)
CallMatchAnyCasePhrase ==
    /\ res.fn = "none"
    /\ res' = [fn |-> "matchAnyCasePhrase",
               val |-> matchAnyCasePhrase(s, AppendLowercase(needle))]
    /\ UNCHANGED <<s, needle>>
    /\ UNCHANGED <<filterVars, statsVars, onceVars, keyVars, journalVars>>

KernelNext == CallMatchPhrase \/ CallMatchPrefix \/ CallMatchAnyCasePhrase

SpecKernel == KernelInit /\ [][KernelNext]_vars

-----------------------------------------------------------------------------
(* Stats pipe: pipe_stats.go *)

stateSizeBudgetChunk == 1048576

\* most workers (shards) of a stats processor
MaxWorkers == 2
\* most rows of a block handed to writeBlock
MaxBlockRows == 2
\* most writeBlock calls of one worker
MaxBlocksPerWorker == 2

\* the stats functions of the pipe: `stats ... count() as n`
funcs == <<"count">>

\* size in bytes of a count processor, as newStatsProcessor reports it
countProcessorSize == 8

\* statsFunc.newStatsProcessor: the processor and its size in bytes
newStatsProcessor(f) == [sfp |-> 0, stateSize |-> countProcessorSize]

\* statsProcessor.updateStatsForAllRows: the processor and the change of its
\* state size, which the block determines
updateStatsForAllRows(sfp, br) ==
    [sfp |-> sfp + br.nrows, n |-> br.stateSizeIncrease]

\* statsProcessor.updateStatsForRow
updateStatsForRow(sfp, br, rowIndex) ==
    [sfp |-> sfp + 1, n |-> br.stateSizeIncrease]

\* statsProcessor.mergeState
mergeState(sfp, other) == sfp + other

\* statsProcessor.finalizeStats
finalizeStats(sfp) == AppendUint(sfp)

\* encoding.MarshalBytes: dst, the length of b as a varint, b
MarshalBytes(dst, b) == dst \o <<Len(b)>> \o b

\* encoding.UnmarshalBytes: the tail, the value, and whether decoding failed
UnmarshalBytes(src) ==
    IF Len(src) = 0 \/ Len(src) - 1 < src[1]
    THEN [tail |-> src, v |-> <<>>, err |-> TRUE]
    ELSE [tail |-> SubSeq(src, src[1] + 2, Len(src)),
          v |-> SubSeq(src, 2, src[1] + 1), err |-> FALSE]

\* unsafe.Sizeof("") + unsafe.Sizeof(spg) + unsafe.Sizeof(sfps[0]) on 64-bit
sizeofString == 16
sizeofPointer == 8
sizeofInterface == 16

RECURSIVE SumTo(_, _)
SumTo(f, n) == IF n = 0 THEN 0 ELSE SumTo(f, n - 1) + f[n]

\* a Go map as a function over the keys it holds
emptyMap == [key \in {} |-> <<>>]
mapPut(m, key, v) == [x \in DOMAIN m \cup {key} |-> IF x = key THEN v ELSE m[x]]

\* mutant: a shard starts without its chunk
newShardWithoutChunk == [m |-> emptyMap, stateSizeBudget |-> 0]

newShard == [m |-> emptyMap, stateSizeBudget |-> stateSizeBudgetChunk]

\* memory.Allowed() of the process
AllowedMemory ==
    {5 * stateSizeBudgetChunk, 8 * stateSizeBudgetChunk, 10 * stateSizeBudgetChunk}

\* pipeStats.newPipeProcessor: the initial psp.maxStateSize
newPipeProcessor(workersCount, allowed) ==
    ((allowed * 3) \div 10) - workersCount * stateSizeBudgetChunk

\* shard.getStatsProcessors: the shard after the group of key exists
getStatsProcessors(shard, key) ==
    IF key \in DOMAIN shard.m THEN shard
    ELSE LET sfps == [i \in 1..Len(funcs) |-> newStatsProcessor(funcs[i]).sfp]
             sizes == [i \in 1..Len(funcs) |-> newStatsProcessor(funcs[i]).stateSize]
         IN [m |-> mapPut(shard.m, key, sfps),
             stateSizeBudget |-> shard.stateSizeBudget - SumTo(sizes, Len(funcs))
                 - (Len(key) + sizeofString + sizeofPointer
                    + sizeofInterface * Len(funcs))]

\* for _, sfp := range shard.getStatsProcessors(key) {
\*     shard.stateSizeBudget -= sfp.updateStatsForAllRows(br) }
updateGroupForAllRows(shard, key, br) ==
    LET sh == getStatsProcessors(shard, key)
        upd == [i \in 1..Len(funcs) |-> updateStatsForAllRows(sh.m[key][i], br)]
    IN [m |-> mapPut(sh.m, key, [i \in 1..Len(funcs) |-> upd[i].sfp]),
        stateSizeBudget |-> sh.stateSizeBudget
            - SumTo([i \in 1..Len(funcs) |-> upd[i].n], Len(funcs))]

\* for _, sfp := range sfps { shard.stateSizeBudget -= sfp.updateStatsForRow(br, i) }
updateGroupForRow(shard, key, br, rowIndex) ==
    LET upd == [i \in 1..Len(funcs) |-> updateStatsForRow(shard.m[key][i], br, rowIndex)]
    IN [m |-> mapPut(shard.m, key, [i \in 1..Len(funcs) |-> upd[i].sfp]),
        stateSizeBudget |-> shard.stateSizeBudget
            - SumTo([i \in 1..Len(funcs) |-> upd[i].n], Len(funcs))]

areConstValues(values) ==
    IF Len(values) = 0 THEN FALSE
    ELSE \A i \in 2..Len(values) : values[1] = values[i]

\* br.getBucketedValue and c.getBucketedValues without bucketing
getBucketedValue(v) == v
getBucketedValues(c) == c.values

\* mutant: the group is resolved for the first row only
RECURSIVE walkRowsSingleFieldFirstKey(_, _, _, _, _)
walkRowsSingleFieldFirstKey(shard, br, values, i0, key) ==
    IF i0 >= br.nrows THEN shard
    ELSE LET resolve == i0 <= 0
             keyBuf == IF resolve THEN MarshalBytes(<<>>, values[i0 + 1]) ELSE key
             sh == IF resolve THEN getStatsProcessors(shard, keyBuf) ELSE shard
         IN walkRowsSingleFieldFirstKey(updateGroupForRow(sh, keyBuf, br, i0),
                                        br, values, i0 + 1, keyBuf)

\* writeBlock, one by-field, generic path: rows i0.. of the block, where key
\* is the key of the group resolved last
RECURSIVE walkRowsSingleField(_, _, _, _, _)
walkRowsSingleField(shard, br, values, i0, key) ==
    IF i0 >= br.nrows THEN shard
    ELSE LET resolve == i0 <= 0 \/ values[i0] # values[i0 + 1]
             keyBuf == IF resolve THEN MarshalBytes(<<>>, values[i0 + 1]) ELSE key
             sh == IF resolve THEN getStatsProcessors(shard, keyBuf) ELSE shard
         IN walkRowsSingleField(updateGroupForRow(sh, keyBuf, br, i0),
                                br, values, i0 + 1, keyBuf)

\* mutant: the key holds the value of the last by-field only
marshalRowLastField(columnValues, i, n) ==
    IF n = 0 THEN <<>> ELSE MarshalBytes(<<>>, columnValues[n][i])

RECURSIVE marshalRow(_, _, _)
marshalRow(columnValues, i, n) ==
    IF n = 0 THEN <<>>
    ELSE MarshalBytes(marshalRow(columnValues, i, n - 1), columnValues[n][i])

\* writeBlock, several by-fields, slowest path: rows i0.. of the block, where
\* have tells whether sfps is non-nil and key is the key resolved last
RECURSIVE walkRowsManyFields(_, _, _, _, _, _)
walkRowsManyFields(shard, br, columnValues, i0, key, have) ==
    IF i0 >= br.nrows THEN shard
    ELSE LET sameValue == have /\ \A j \in 1..Len(columnValues) :
                 ~(i0 <= 0 \/ columnValues[j][i0] # columnValues[j][i0 + 1])
             keyBuf == IF ~sameValue
                       THEN marshalRow(columnValues, i0 + 1, Len(columnValues))
                       ELSE key
             sh == IF ~sameValue THEN getStatsProcessors(shard, keyBuf) ELSE shard
         IN walkRowsManyFields(updateGroupForRow(sh, keyBuf, br, i0),
                               br, columnValues, i0 + 1, keyBuf, TRUE)

\* writeBlock after the budget loop: the shard after the block is aggregated
writeBlockRows(shard, br, byFields) ==
    IF byFields = 0 THEN updateGroupForAllRows(shard, <<>>, br)
    ELSE IF byFields = 1 THEN
        LET c == br.columns[1]
            values == getBucketedValues(c)
        IN IF c.isConst
           THEN updateGroupForAllRows(shard,
                    MarshalBytes(<<>>, getBucketedValue(c.encodedValues[1])), br)
           ELSE IF areConstValues(values)
           THEN updateGroupForAllRows(shard, MarshalBytes(<<>>, values[1]), br)
           ELSE walkRowsSingleField(shard, br, values, 0, <<>>)
    ELSE
        LET columnValues == [j \in 1..byFields |-> getBucketedValues(br.columns[j])]
            areAllConstColumns == \A j \in 1..byFields : areConstValues(columnValues[j])
        IN IF areAllConstColumns
           THEN updateGroupForAllRows(shard, marshalRow(columnValues, 1, byFields), br)
           ELSE walkRowsManyFields(shard, br, columnValues, 0, <<>>, FALSE)

-----------------------------------------------------------------------------
(* Stats pipe harness: the workers call writeBlock concurrently, then flush *)

Workers == 0..(ps.workersCount - 1)

\* values of the by-fields: "a", "b"
ByValues == {<<97>>, <<98>>}

\* the by-field values a row may hold: (), (a), (b), (a,a), (a,b), (b,a)
RowValues(byFields) ==
    IF byFields = 0 THEN {<<>>}
    ELSE IF byFields = 1 THEN {<<v>> : v \in ByValues}
    ELSE {<<97>>} \X ByValues \cup {<<<<98>>, <<97>>>>}

plainColumn(values) == [isConst |-> FALSE, encodedValues |-> values, values |-> values]
constColumn(v, n) == [isConst |-> TRUE, encodedValues |-> <<v>>, values |-> [i \in 1..n |-> v]]

\* the by-columns a block may hold: one plain column per by-field for each
\* sequence of rows, and for a single by-field the const columns as well
BlockColumns(n, byFields) ==
    {[j \in 1..byFields |-> plainColumn([i \in 1..n |-> rows[i][j]])] :
        rows \in [1..n -> RowValues(byFields)]}
    \cup (IF byFields = 1 THEN {<<constColumn(v, n)>> : v \in ByValues} ELSE {})

\* the change of state size one update call reports: the state grows only
\* in the pipe without by-fields
StateSizeIncreases(byFields) ==
    IF byFields = 0 THEN {0, stateSizeBudgetChunk, 3 * stateSizeBudgetChunk}
    ELSE {0}

\* the blocks the upstream may hand to writeBlock
StatsBlocks(byFields) ==
    UNION {[nrows : {n},
            columns : BlockColumns(n, byFields),
            stateSizeIncrease : StateSizeIncreases(byFields)] : n \in 0..MaxBlockRows}

noBlockResult == [nrows |-> 0, columns |-> <<>>, stateSizeIncrease |-> 0]

ByFieldCounts == {0, 1, 2}

\* a worker outside writeBlock; ncalls counts its calls and maxCalls bounds
\* them, dropped tells whether
\* a call returned without aggregating its block, charged is the sum of the
\* state-size changes charged to its shard so far, failed counts its chunk
\* requests that left the global budget negative
idleWorker ==
    [pc |-> "idle", br |-> noBlockResult, ncalls |-> 0, dropped |-> FALSE,
     charged |-> 0, failed |-> 0, maxCalls |-> MaxBlocksPerWorker]

idleFlush == [pc |-> "idle"]

StatsInit ==
    /\ \E byFields \in ByFieldCounts, workersCount \in 1..MaxWorkers,
          allowed \in AllowedMemory :
        /\ ps = [byFields |-> byFields, workersCount |-> workersCount,
                 maxStateSize |-> newPipeProcessor(workersCount, allowed)]
        /\ stateSizeBudget = newPipeProcessor(workersCount, allowed)
        /\ shards = [w \in 0..(workersCount - 1) |-> newShard]
        /\ wb = [w \in 0..(workersCount - 1) |-> idleWorker]
    /\ cancelCalls = 0
    /\ stopCh = FALSE
    /\ fl = idleFlush
    /\ out = <<>>
    /\ single = newShard
    /\ KernelIdle
    /\ FilterIdle
    /\ OnceIdle
    /\ KeyIdle
    /\ JournalIdle

\* writeBlock(workerID, br) up to its first access of the global budget: with
\* a non-negative shard budget the block is aggregated at once
WriteBlock(w, br) ==
    /\ fl.pc = "idle"
    /\ wb[w].pc = "idle"
    /\ wb[w].ncalls < wb[w].maxCalls
    /\ IF shards[w].stateSizeBudget < 0
       THEN /\ wb' = [wb EXCEPT ![w].pc = "steal", ![w].br = br,
                                ![w].ncalls = @ + 1]
            /\ UNCHANGED <<shards, single>>
       ELSE /\ shards' = [shards EXCEPT ![w] = writeBlockRows(@, br, ps.byFields)]
            /\ wb' = [wb EXCEPT ![w].ncalls = @ + 1,
                                ![w].charged = @ + shards[w].stateSizeBudget
                                                 - shards'[w].stateSizeBudget]
            /\ single' = writeBlockRows(single, br, ps.byFields)
    /\ UNCHANGED <<ps, stateSizeBudget, cancelCalls, stopCh, fl, out>>
    /\ UNCHANGED <<kernelVars, filterVars, onceVars, keyVars, journalVars>>

\* mutant: the shard receives the chunk although the request failed
returnWithChunk(shard) ==
    [shard EXCEPT !.stateSizeBudget = @ + stateSizeBudgetChunk]

\* writeBlock, `return` inside `if remaining < 0`: the shard as the failed
\* request leaves it, `shard.stateSizeBudget += stateSizeBudgetChunk` not reached
returnWithoutChunk(shard) == shard

\* mutant: every failed attempt notifies the workers
cancelOnEveryFailure(remaining) == TRUE

\* writeBlock, `if remaining+stateSizeBudgetChunk >= 0 { psp.cancel() }`:
\* whether the failed attempt that left remaining calls cancel
cancelOnFailure(remaining) == remaining + stateSizeBudgetChunk >= 0

\* one iteration of the budget loop of writeBlock: the atomic Add and what
\* follows it up to the next Add or the return
StealBudget(w) ==
    /\ wb[w].pc = "steal"
    /\ LET remaining == stateSizeBudget - stateSizeBudgetChunk
           budget == shards[w].stateSizeBudget + stateSizeBudgetChunk
       IN /\ stateSizeBudget' = remaining
          /\ IF remaining < 0
             THEN /\ cancelCalls' = IF cancelOnFailure(remaining)
                                    THEN cancelCalls + 1 ELSE cancelCalls
                  /\ wb' = [wb EXCEPT ![w].pc = "idle", ![w].br = noBlockResult,
                                      ![w].dropped = TRUE, ![w].failed = @ + 1]
                  /\ shards' = [shards EXCEPT ![w] = returnWithoutChunk(@)]
                  /\ UNCHANGED single
             ELSE IF budget < 0
             THEN /\ shards' = [shards EXCEPT ![w].stateSizeBudget = budget]
                  /\ UNCHANGED <<wb, cancelCalls, single>>
             ELSE /\ shards' = [shards EXCEPT ![w] =
                        writeBlockRows([@ EXCEPT !.stateSizeBudget = budget],
                                       wb[w].br, ps.byFields)]
                  /\ single' = writeBlockRows(single, wb[w].br, ps.byFields)
                  /\ wb' = [wb EXCEPT ![w].pc = "idle", ![w].br = noBlockResult,
                                      ![w].charged = @ + budget
                                                       - shards'[w].stateSizeBudget]
                  /\ UNCHANGED cancelCalls
    /\ UNCHANGED <<ps, stopCh, fl, out>>
    /\ UNCHANGED <<kernelVars, filterVars, onceVars, keyVars, journalVars>>

\* the query is cancelled or times out: stopCh is closed
CloseStopCh ==
    /\ ~stopCh
    /\ fl.pc # "returned"
    /\ stopCh' = TRUE
    /\ UNCHANGED <<ps, stateSizeBudget, shards, wb, cancelCalls, fl, out, single>>
    /\ UNCHANGED <<kernelVars, filterVars, onceVars, keyVars, journalVars>>

\* the locals of flush: owner is the shard whose map m refers to, i the
\* shard being merged (as an index of psp.shards), keys the keys the current
\* range loop has not visited yet, br the rows of the block being built
flushAt(pc, owner, i, keys, br) ==
    [pc |-> pc, owner |-> owner, i |-> i, keys |-> keys, br |-> br]

flushReturned(result, early) ==
    [pc |-> "returned", result |-> result, early |-> early]

shardKeys(i) == IF i \in Workers THEN DOMAIN shards[i].m ELSE {}

\* mutant: flush does not look at the global budget
budgetExhaustedNever(n) == FALSE

\* mutant: a global budget of exactly zero is not reported
budgetExhaustedBelowZero(n) == n < 0

\* flush, `if n := psp.stateSizeBudget.Load(); n <= 0`
budgetExhausted(n) == n <= 0

\* flush is called once every writeBlock call has returned: the budget check
\* and `m := shards[0].m; shards = shards[1:]`
FlushStart ==
    /\ fl.pc = "idle"
    /\ \A w \in Workers : wb[w].pc = "idle"
    /\ fl' = IF budgetExhausted(stateSizeBudget)
             THEN flushReturned("error", FALSE)
             ELSE flushAt("merge", 0, 1, shardKeys(1), <<>>)
    /\ UNCHANGED <<ps, stateSizeBudget, shards, wb, cancelCalls, stopCh, out, single>>
    /\ UNCHANGED <<kernelVars, filterVars, onceVars, keyVars, journalVars>>

\* mutant: the poll never sees stopCh closed
stopRequestedNever(ch) == FALSE

\* `select { case <-psp.stopCh: return nil; default: }`: whether the poll
\* finds stopCh closed
stopRequested(ch) == ch

\* one iteration of `for key, spg := range shard.m` of the merge loop
FlushMergeGroup ==
    /\ fl.pc = "merge"
    /\ \E key \in fl.keys :
        IF stopRequested(stopCh)
        THEN /\ fl' = flushReturned("nil", TRUE)
             /\ UNCHANGED shards
        ELSE LET m == shards[fl.owner].m
                 spg == shards[fl.i].m[key]
                 merged == IF key \notin DOMAIN m THEN spg
                           ELSE [j \in 1..Len(funcs) |-> mergeState(m[key][j], spg[j])]
             IN /\ shards' = [shards EXCEPT ![fl.owner].m = mapPut(m, key, merged)]
                /\ fl' = [fl EXCEPT !.keys = @ \ {key}]
    /\ UNCHANGED <<ps, stateSizeBudget, wb, cancelCalls, stopCh, out, single>>
    /\ UNCHANGED <<kernelVars, filterVars, onceVars, keyVars, journalVars>>

\* the range loop over a shard's map ends: `for i := range shards` moves on
FlushMergeNextShard ==
    /\ fl.pc = "merge"
    /\ fl.keys = {}
    /\ fl.i < ps.workersCount
    /\ fl' = [fl EXCEPT !.i = @ + 1, !.keys = shardKeys(fl.i + 1)]
    /\ UNCHANGED <<ps, stateSizeBudget, shards, wb, cancelCalls, stopCh, out, single>>
    /\ UNCHANGED <<kernelVars, filterVars, onceVars, keyVars, journalVars>>

\* after the merge loop: the special case of zero matching rows, where
\* shards is psp.shards[1:], and the start of the loop over m
FlushWriteStart ==
    /\ fl.pc = "merge"
    /\ fl.i >= ps.workersCount
    /\ IF ps.byFields = 0 /\ DOMAIN shards[fl.owner].m = {}
       THEN IF ps.workersCount - 1 <= 0
            THEN /\ fl' = flushReturned("panic", FALSE)
                 /\ UNCHANGED <<shards, wb>>
            ELSE /\ shards' = [shards EXCEPT ![1] = getStatsProcessors(@, <<>>)]
                 /\ wb' = [wb EXCEPT ![1].charged = @ + shards[1].stateSizeBudget
                                                      - shards'[1].stateSizeBudget]
                 /\ fl' = flushAt("write", 1, fl.i, DOMAIN shards'[1].m, <<>>)
       ELSE /\ fl' = flushAt("write", fl.owner, fl.i, DOMAIN shards[fl.owner].m, <<>>)
            /\ UNCHANGED <<shards, wb>>
    /\ UNCHANGED <<ps, stateSizeBudget, cancelCalls, stopCh, out, single>>
    /\ UNCHANGED <<kernelVars, filterVars, onceVars, keyVars, journalVars>>

\* the values encoded in a group key, or <<"error">> for a malformed key
RECURSIVE unmarshalKey(_)
unmarshalKey(keyBuf) ==
    IF Len(keyBuf) = 0 THEN [values |-> <<>>, err |-> FALSE]
    ELSE LET u == UnmarshalBytes(keyBuf) IN
         IF u.err THEN [values |-> <<>>, err |-> TRUE]
         ELSE LET rest == unmarshalKey(u.tail)
              IN [values |-> <<u.v>> \o rest.values, err |-> rest.err]

\* rows a result block holds when it is handed to ppBase.writeBlock
maxResultBlockRows == 1000

\* mutant: a block is handed over after every row
blockIsFullAlways(n) == TRUE

\* `if len(br.timestamps) >= 1_000`
blockIsFull(n) == n >= maxResultBlockRows

\* largest map whose every iteration order is explored
MaxShuffledKeys == 4

\* the keys `for key, spg := range m` may yield next when keys are left:
\* any of them; for a map of more than MaxShuffledKeys keys one order is
\* followed
rangeNext(keys) ==
    IF Cardinality(keys) <= MaxShuffledKeys THEN keys
    ELSE {CHOOSE key \in keys : TRUE}

\* one iteration of `for key, spg := range m` of the output loop
FlushWriteGroup ==
    /\ fl.pc = "write"
    /\ \E key \in rangeNext(fl.keys) :
        IF stopRequested(stopCh)
        THEN /\ fl' = flushReturned("nil", TRUE)
             /\ UNCHANGED out
        ELSE LET spg == shards[fl.owner].m[key]
                 decoded == unmarshalKey(key)
                 values == decoded.values
                     \o [j \in 1..Len(funcs) |-> finalizeStats(spg[j])]
                 br == Append(fl.br, values)
             IN IF decoded.err \/ Len(decoded.values) # ps.byFields
                THEN /\ fl' = flushReturned("panic", FALSE)
                     /\ UNCHANGED out
                ELSE IF blockIsFull(Len(br))
                THEN /\ out' = Append(out, br)
                     /\ fl' = [fl EXCEPT !.keys = @ \ {key}, !.br = <<>>]
                ELSE /\ fl' = [fl EXCEPT !.keys = @ \ {key}, !.br = br]
                     /\ UNCHANGED out
    /\ UNCHANGED <<ps, stateSizeBudget, shards, wb, cancelCalls, stopCh, single>>
    /\ UNCHANGED <<kernelVars, filterVars, onceVars, keyVars, journalVars>>

\* the output loop ends: the last block is written and flush returns nil
FlushReturn ==
    /\ fl.pc = "write"
    /\ fl.keys = {}
    /\ out' = IF Len(fl.br) > 0 THEN Append(out, fl.br) ELSE out
    /\ fl' = flushReturned("nil", FALSE)
    /\ UNCHANGED <<ps, stateSizeBudget, shards, wb, cancelCalls, stopCh, single>>
    /\ UNCHANGED <<kernelVars, filterVars, onceVars, keyVars, journalVars>>

StatsNext ==
    \/ \E w \in Workers : \E br \in StatsBlocks(ps.byFields) : WriteBlock(w, br)
    \/ \E w \in Workers : StealBudget(w)
    \/ CloseStopCh
    \/ FlushStart
    \/ FlushMergeGroup
    \/ FlushMergeNextShard
    \/ FlushWriteStart
    \/ FlushWriteGroup
    \/ FlushReturn

SpecStats == StatsInit /\ [][StatsNext]_vars

\* the steps of a flush call that has passed its budget check
FlushStep ==
    \/ FlushMergeGroup
    \/ FlushMergeNextShard
    \/ FlushWriteStart
    \/ FlushWriteGroup
    \/ FlushReturn

\* flush is a sequential function: once called, the goroutine that runs it
\* keeps taking steps
SpecStatsFair == SpecStats /\ WF_vars(FlushStep)

-----------------------------------------------------------------------------
(* The output loop of flush over a map of a thousand groups and more       *)
(* (SpecFlushBig)                                                          *)

\* the numbers of groups of the merged map: two groups, one less than a
\* full result block, a full block, a full block and one row
BigGroupCounts ==
    {2, maxResultBlockRows - 1, maxResultBlockRows, maxResultBlockRows + 1}

\* the i-th value of the by-field, two bytes, and its group key
bigValue(i) == <<i \div 256, i % 256>>
bigKey(i) == MarshalBytes(<<>>, bigValue(i))

\* the shard of the one worker after a block of n rows with n different
\* values of the one by-field was aggregated, each group counting one row
bigShard(n) ==
    [m |-> [key \in {bigKey(i) : i \in 1..n} |->
               [j \in 1..Len(funcs) |-> newStatsProcessor(funcs[j]).sfp + 1]],
     stateSizeBudget |-> stateSizeBudgetChunk
         - n * (countProcessorSize * Len(funcs) + Len(bigKey(1)) + sizeofString
                + sizeofPointer + sizeofInterface * Len(funcs))]

\* flush of a pipe with one by-field and one worker has passed its budget
\* check and the merge loop and enters the output loop
FlushBigInit ==
    /\ \E n \in BigGroupCounts :
          /\ shards = [w \in {0} |-> bigShard(n)]
          /\ single = bigShard(n)
          /\ wb = [w \in {0} |->
                     [idleWorker EXCEPT !.ncalls = 1,
                          !.charged = stateSizeBudgetChunk - bigShard(n).stateSizeBudget]]
          /\ fl = flushAt("write", 0, 1, DOMAIN bigShard(n).m, <<>>)
    /\ ps = [byFields |-> 1, workersCount |-> 1,
             maxStateSize |-> newPipeProcessor(1, Max(AllowedMemory))]
    /\ stateSizeBudget = newPipeProcessor(1, Max(AllowedMemory))
    /\ cancelCalls = 0
    /\ stopCh = FALSE
    /\ out = <<>>
    /\ KernelIdle
    /\ FilterIdle
    /\ OnceIdle
    /\ KeyIdle
    /\ JournalIdle

FlushBigNext ==
    \/ FlushWriteGroup
    \/ FlushReturn

SpecFlushBig == FlushBigInit /\ [][FlushBigNext]_vars

-----------------------------------------------------------------------------
(* Group keys of two rows of one block (SpecKey) *)

\* longest by-field value, in bytes
MaxKeyValueLen == 2

\* the bytes of by-field values: 0 and 1 are length prefixes as well, 97 is "a"
KeyBytes == {0, 1, 97}
KeyValues == UNION {[1..n -> KeyBytes] : n \in 0..MaxKeyValueLen}
KeyTuples(byFields) == [1..byFields -> KeyValues]

\* a block of two rows whose by-field values are a and b
keyBlock(byFields, a, b, isConst) ==
    [nrows |-> 2,
     columns |-> [j \in 1..byFields |->
                     IF isConst THEN constColumn(a[j], 2)
                     ELSE plainColumn(<<a[j], b[j]>>)],
     stateSizeIncrease |-> 0]

\* a pipe with byFields by-fields is handed a block of two rows; a column
\* whose two values are equal may arrive as a const column
KeyInit ==
    /\ \E n \in ByFieldCounts :
          \E a \in KeyTuples(n), b \in KeyTuples(n), isConst \in BOOLEAN :
              /\ isConst => n = 1 /\ a = b
              /\ kt = [byFields |-> n, a |-> a, b |-> b, isConst |-> isConst]
    /\ kr = [done |-> FALSE]
    /\ KernelIdle
    /\ FilterIdle
    /\ StatsIdle
    /\ OnceIdle
    /\ JournalIdle

\* writeBlock puts the two rows into the groups of a fresh shard; the decode
\* loop of flush is run on every key of the shard
MarshalAndDecode ==
    /\ ~kr.done
    /\ LET br == keyBlock(kt.byFields, kt.a, kt.b, kt.isConst)
           shard == writeBlockRows(newShard, br, kt.byFields)
       IN kr' = [done |-> TRUE,
                 dec |-> [key \in DOMAIN shard.m |-> unmarshalKey(key)]]
    /\ UNCHANGED kt
    /\ UNCHANGED <<kernelVars, filterVars, statsVars, onceVars, journalVars>>

KeyNext == MarshalAndDecode

SpecKey == KeyInit /\ [][KeyNext]_vars

-----------------------------------------------------------------------------
(* writeBlock calls after the global budget is exhausted (SpecDrop): the   *)
(* pipe without by-fields, whose processors grow, and MaxDropCalls calls   *)
(* of each worker.                                                         *)

\* most writeBlock calls of one worker
MaxDropCalls == 3

DropInit ==
    /\ \E workersCount \in 1..MaxWorkers, allowed \in AllowedMemory :
        /\ ps = [byFields |-> 0, workersCount |-> workersCount,
                 maxStateSize |-> newPipeProcessor(workersCount, allowed)]
        /\ stateSizeBudget = newPipeProcessor(workersCount, allowed)
        /\ shards = [w \in 0..(workersCount - 1) |-> newShard]
        /\ wb = [w \in 0..(workersCount - 1) |->
                    [idleWorker EXCEPT !.maxCalls = MaxDropCalls]]
    /\ cancelCalls = 0
    /\ stopCh = FALSE
    /\ fl = idleFlush
    /\ out = <<>>
    /\ single = newShard
    /\ KernelIdle
    /\ FilterIdle
    /\ OnceIdle
    /\ KeyIdle
    /\ JournalIdle

DropNext ==
    \/ \E w \in Workers, br \in StatsBlocks(ps.byFields) : WriteBlock(w, br)
    \/ \E w \in Workers : StealBudget(w)

SpecDrop == DropInit /\ [][DropNext]_vars

-----------------------------------------------------------------------------
(* One shard, blocks of up to MaxWalkRows rows: the paths of writeBlock     *)
(* (SpecWriteBlock).  single holds the shard as it was before the last     *)
(* call and wb[0].br the block of the last call.                           *)

\* most rows of a block
MaxWalkRows == 3
\* most writeBlock calls
MaxWalkCalls == 2

\* the blocks handed to writeBlock: their processors do not grow
WalkBlocks(byFields) ==
    UNION {[nrows : {n},
            columns : BlockColumns(n, byFields),
            stateSizeIncrease : {0}] : n \in 0..MaxWalkRows}

WriteBlockInit ==
    /\ \E byFields \in ByFieldCounts :
          ps = [byFields |-> byFields, workersCount |-> 1,
                maxStateSize |-> newPipeProcessor(1, Max(AllowedMemory))]
    /\ stateSizeBudget = newPipeProcessor(1, Max(AllowedMemory))
    /\ shards = [w \in {0} |-> newShard]
    /\ wb = [w \in {0} |-> idleWorker]
    /\ cancelCalls = 0
    /\ stopCh = FALSE
    /\ fl = idleFlush
    /\ out = <<>>
    /\ single = newShard
    /\ KernelIdle
    /\ FilterIdle
    /\ OnceIdle
    /\ KeyIdle
    /\ JournalIdle

\* writeBlock(0, br) of a shard whose budget is not negative: the budget loop
\* is not entered and the block is aggregated
WriteBlockAggregate(br) ==
    /\ wb[0].ncalls < MaxWalkCalls
    /\ shards[0].stateSizeBudget >= 0
    /\ single' = shards[0]
    /\ shards' = [shards EXCEPT ![0] = writeBlockRows(@, br, ps.byFields)]
    /\ wb' = [wb EXCEPT ![0].ncalls = @ + 1, ![0].br = br,
                        ![0].charged = @ + shards[0].stateSizeBudget
                                         - shards'[0].stateSizeBudget]
    /\ UNCHANGED <<ps, stateSizeBudget, cancelCalls, stopCh, fl, out>>
    /\ UNCHANGED <<kernelVars, filterVars, onceVars, keyVars, journalVars>>

WriteBlockNext == \E br \in WalkBlocks(ps.byFields) : WriteBlockAggregate(br)

SpecWriteBlock == WriteBlockInit /\ [][WriteBlockNext]_vars

-----------------------------------------------------------------------------
(* Journald export parser: parseJournaldRequest (SpecJournal) *)

\* fields of one journal entry, entries of one request
MaxFieldsPerEntry == 2
MaxEntries == 2
\* bytes cut from the end of the request body
MaxCut == 3

\* "__T" stands for -journald.timeField, "MESSAGE" is cp.MsgField
cpTimeField == <<95, 95, 84>>
cpMsgField == <<77, 69, 83, 83, 65, 71, 69>>
msgFieldName == <<95, 109, 115, 103>>
metaPrefix == <<95, 95>>

\* strconv.ParseInt(value, 10, 64): an optional sign and decimal digits
ParseInt(value) ==
    LET signed == Len(value) > 0 /\ value[1] \in {43, 45}
        digits == IF signed THEN SubSeq(value, 2, Len(value)) ELSE value
    IN IF Len(digits) = 0 \/ ~AllDigits(digits) THEN [err |-> TRUE, v |-> 0]
       ELSE [err |-> FALSE,
             v |-> IF signed /\ value[1] = 45 THEN 0 - DigitsValue(digits)
                   ELSE DigitsValue(digits)]

\* binary.LittleEndian.PutUint64 for n < 2^24
PutUint64(n) ==
    <<n % 256, (n \div 256) % 256, (n \div 65536) % 256, 0, 0, 0, 0, 0>>

\* binary.Decode(data, binary.LittleEndian, &size) with size a uint64: the
\* number of bytes read and size, or an error when data is shorter than 8
\* bytes.  A size of 2^31 and more is kept as big; negative tells that
\* int(size) is negative
binaryDecode(data) ==
    IF Len(data) < 8 THEN [err |-> TRUE, idx |-> 0, big |-> FALSE, negative |-> FALSE, size |-> 0]
    ELSE LET big == data[4] >= 128 \/ \E k \in 5..8 : data[k] # 0
         IN [err |-> FALSE, idx |-> 8, big |-> big, negative |-> data[8] >= 128,
             size |-> IF big THEN 0
                      ELSE data[1] + 256 * data[2] + 65536 * data[3]
                           + 16777216 * data[4]]

\* data[lo:hi] and data[lo:] of a slice whose capacity is its length
sliceOK(data, lo, hi) == 0 <= lo /\ lo <= hi /\ hi <= Len(data)
slice(data, lo, hi) == SubSeq(data, lo + 1, hi)

journalReturned(result, n, st) ==
    [st EXCEPT !.pc = "returned", !.result = result, !.n = n]

\* lmp.AddRow(ts, fields); rowsIngested++; entry is the number of the entry
\* the row is added for
addRow(st) ==
    LET ts == IF st.ts = 0 THEN jr.now ELSE st.ts
    IN [st EXCEPT !.ts = ts,
                  !.rows = Append(@, [ts |-> ts, fields |-> st.fields,
                                      entry |-> st.entry]),
                  !.rowsIngested = @ + 1]

\* `data[idx:size]`: the end of the slice taken as the value of a binary field
binaryValueEnd(idx, size) == size

\* lines 188-206: the field name/value is the time field, or is appended to
\* fields unless it is entry metadata
handleField(st, name, value) ==
    IF name = cpTimeField
    THEN LET p == ParseInt(value)
         IN IF p.err THEN journalReturned("error", 0, st)
            ELSE [st EXCEPT !.ts = p.v * 1000]
    ELSE LET nm == IF name = cpMsgField THEN msgFieldName ELSE name
         IN IF jr.includeEntryMetadata \/ ~HasPrefixAt(nm, metaPrefix, 0)
            THEN [st EXCEPT !.fields = Append(@, [Name |-> nm, Value |-> value])]
            ELSE st

\* lines 177-186: the line is the name of a binary field whose size and value
\* follow in st.data
binaryField(st, name) ==
    LET d == binaryDecode(st.data)
        data == st.data
    IN IF d.err THEN journalReturned("error", st.rowsIngested, st)
       ELSE IF d.big /\ ~d.negative THEN journalReturned("error", st.rowsIngested, st)
       ELSE IF d.big THEN journalReturned("panic", 0, st)
       ELSE IF d.size > Len(data) - d.idx
            THEN journalReturned("error", st.rowsIngested, st)
       ELSE IF ~sliceOK(data, d.idx, binaryValueEnd(d.idx, d.size))
            THEN journalReturned("panic", 0, st)
       ELSE IF ~sliceOK(data, d.idx + d.size + 1, Len(data))
            THEN journalReturned("panic", 0, st)
       ELSE handleField([st EXCEPT !.data = slice(data, d.idx + d.size + 1, Len(data))],
                        name, slice(data, d.idx, binaryValueEnd(d.idx, d.size)))

\* one iteration of `for len(data) > 0`
parseIteration(st) ==
    LET idx == IndexByte(st.data, 10)
    IN IF idx = 0
       THEN LET st1 == IF Len(st.fields) > 0
                       THEN [addRow(st) EXCEPT !.fields = <<>>]
                       ELSE st
            IN [st1 EXCEPT !.data = Tail(@), !.entry = @ + 1]
       ELSE LET line == IF idx > 0 THEN slice(st.data, 0, idx) ELSE st.data
                st1 == [st EXCEPT !.data = IF idx > 0
                                           THEN slice(st.data, idx + 1, Len(st.data))
                                           ELSE <<>>]
                eq == IndexByte(line, 61)
            IN IF eq > 0
               THEN handleField(st1, slice(line, 0, eq), slice(line, eq + 1, Len(line)))
               ELSE binaryField(st1, line)

\* the kinds of field lines of the requests
FieldKinds == {"text", "meta", "msg", "time", "bin0", "bin3", "bin9"}

\* the value of a binary field of n bytes: "x\n=", "123456789"
binaryValue(n) ==
    IF n = 0 THEN <<>>
    ELSE IF n = 3 THEN <<120, 10, 61>>
    ELSE <<49, 50, 51, 52, 53, 54, 55, 56, 57>>

binarySize(kind) == IF kind = "bin0" THEN 0 ELSE IF kind = "bin3" THEN 3 ELSE 9

\* microseconds of the time field of the requests
journalTimeMicros == 5

\* name and value of a field of a kind: a=b, __a=b, MESSAGE=b, __T=5, B
fieldName(kind) ==
    IF kind = "text" THEN <<97>>
    ELSE IF kind = "meta" THEN <<95, 95, 97>>
    ELSE IF kind = "msg" THEN cpMsgField
    ELSE IF kind = "time" THEN cpTimeField
    ELSE <<66>>
fieldValue(kind) ==
    IF kind \in {"text", "meta", "msg"} THEN <<98>>
    ELSE IF kind = "time" THEN AppendUint(journalTimeMicros)
    ELSE binaryValue(binarySize(kind))

\* the export format of a field, of an entry and of a request
serializeField(kind) ==
    IF kind \in {"bin0", "bin3", "bin9"}
    THEN fieldName(kind) \o <<10>> \o PutUint64(binarySize(kind))
         \o fieldValue(kind) \o <<10>>
    ELSE fieldName(kind) \o <<61>> \o fieldValue(kind) \o <<10>>

RECURSIVE serializeEntry(_)
serializeEntry(entry) ==
    IF entry = <<>> THEN <<10>>
    ELSE serializeField(Head(entry)) \o serializeEntry(Tail(entry))

RECURSIVE serializeRequest(_)
serializeRequest(entries) ==
    IF entries = <<>> THEN <<>>
    ELSE serializeEntry(Head(entries)) \o serializeRequest(Tail(entries))

JournalEntries == UNION {[1..n -> FieldKinds] : n \in 1..MaxFieldsPerEntry}
JournalRequests == UNION {[1..n -> JournalEntries] : n \in 1..MaxEntries}

\* time.Now().UnixNano() of the requests
journalNow == 999

\* parseJournaldRequest is called with the body of a request: the export
\* format of its entries, possibly cut short
JournalInit ==
    /\ \E entries \in JournalRequests, cut \in 0..MaxCut, include \in BOOLEAN :
          LET body == serializeRequest(entries)
              data == SubSeq(body, 1, Len(body) - cut)
          IN /\ jr = [entries |-> entries, data |-> data, cut |-> cut,
                      now |-> journalNow, includeEntryMetadata |-> include]
             /\ jp = [pc |-> "loop", data |-> data, fields |-> <<>>, ts |-> 0,
                      rowsIngested |-> 0, rows |-> <<>>, entry |-> 1,
                      result |-> "none", n |-> 0]
    /\ KernelIdle
    /\ FilterIdle
    /\ StatsIdle
    /\ OnceIdle
    /\ KeyIdle

ParseLine ==
    /\ jp.pc = "loop"
    /\ Len(jp.data) > 0
    /\ jp' = parseIteration(jp)
    /\ UNCHANGED jr
    /\ UNCHANGED <<kernelVars, filterVars, statsVars, onceVars, keyVars>>

\* after the loop: the fields of the last entry are added and the number of
\* rows is returned
ParseEnd ==
    /\ jp.pc = "loop"
    /\ Len(jp.data) = 0
    /\ LET st == IF Len(jp.fields) > 0 THEN addRow(jp) ELSE jp
       IN jp' = journalReturned("ok", st.rowsIngested, st)
    /\ UNCHANGED jr
    /\ UNCHANGED <<kernelVars, filterVars, statsVars, onceVars, keyVars>>

JournalNext ==
    \/ ParseLine
    \/ ParseEnd

SpecJournal == JournalInit /\ [][JournalNext]_vars

-----------------------------------------------------------------------------
(* Properties of the text kernel (SpecKernel) *)

FirstRune(str) == DecodeRuneInString(str).r
LastRune(str) == DecodeLastRuneInString(str).r

\* the rune that ends at offset i of str is absent or a non-token rune; with
\* strict, U+FFFD (utf8.RuneError) does not count as a boundary either
LeftBoundary(str, i, strict) ==
    \/ i = 0
    \/ LET r == LastRune(SubSeq(str, 1, i))
       IN ~isTokenRune(r) /\ (strict => r # RuneError)

\* the rune that starts at offset j of str is absent or a non-token rune
RightBoundary(str, j, strict) ==
    \/ j = Len(str)
    \/ LET r == FirstRune(SubSeq(str, j + 1, Len(str)))
       IN ~isTokenRune(r) /\ (strict => r # RuneError)

PhraseOccursAt(str, phrase, i, strict) ==
    /\ HasPrefixAt(str, phrase, i)
    /\ isTokenRune(FirstRune(phrase)) => LeftBoundary(str, i, strict)
    /\ isTokenRune(LastRune(phrase)) => RightBoundary(str, i + Len(phrase), strict)

PrefixOccursAt(str, prefix, i, strict) ==
    /\ HasPrefixAt(str, prefix, i)
    /\ isTokenRune(FirstRune(prefix)) => LeftBoundary(str, i, strict)

PhraseExists(strict) ==
    IF needle = <<>> THEN s = <<>>
    ELSE \E i \in 0..Len(s) : PhraseOccursAt(s, needle, i, strict)

PrefixExists(strict) ==
    IF needle = <<>> THEN s # <<>>
    ELSE \E i \in 0..Len(s) : PrefixOccursAt(s, needle, i, strict)

\* C4 (as claimed): matchPhrase(s, phrase) is true iff phrase occurs in s at
\* a position whose neighbouring runes, on the sides where phrase starts or
\* ends with a token rune, are absent or non-token; an empty phrase matches
\* only the empty string.
C4_PhraseIffBoundedOccurrence ==
    res.fn = "matchPhrase" => (res.val <=> PhraseExists(FALSE))

\* C4 (amended): as C4, where a neighbouring U+FFFD (utf8.RuneError) is no
\* boundary: the neighbouring rune must be absent, or a non-token rune
\* other than U+FFFD.
C4_PhraseIffBoundedOccurrenceNoRuneError ==
    res.fn = "matchPhrase" => (res.val <=> PhraseExists(TRUE))

\* "foo-bar" contains the phrase "foo": the search found it at a boundary
C4_Witness ==
    /\ res.fn = "matchPhrase" /\ res.val
    /\ s = <<102, 111, 111, 45, 98, 97, 114>> /\ needle = <<102, 111, 111>>

\* C5 (as claimed): matchPrefix(s, prefix) is true iff prefix occurs in s at
\* a position where, if prefix starts with a token rune, the preceding rune
\* is absent or non-token; an empty prefix matches exactly the non-empty
\* strings.
C5_PrefixIffLeftBoundedOccurrence ==
    res.fn = "matchPrefix" => (res.val <=> PrefixExists(FALSE))

\* C5 (amended): as C5, where a preceding U+FFFD (utf8.RuneError) is no
\* boundary: the preceding rune must be absent, or a non-token rune other
\* than U+FFFD.
C5_PrefixIffLeftBoundedOccurrenceNoRuneError ==
    res.fn = "matchPrefix" => (res.val <=> PrefixExists(TRUE))

\* "abc" prefix-matches "xabc.abcy": the occurrence at offset 1 fails the
\* left boundary and the search resumes at offset 2
C5_Witness ==
    /\ res.fn = "matchPrefix" /\ res.val
    /\ s = <<120, 97, 98, 99, 46, 97, 98, 99, 121>> /\ needle = <<97, 98, 99>>

\* C6: for any string s and lowercased phrase p, matchAnyCasePhrase(s, p)
\* equals matchPhrase(lowercase(s), p).
C6_AnyCaseEqualsPhraseOnLowercase ==
    res.fn = "matchAnyCasePhrase" =>
        (res.val <=> matchPhrase(AppendLowercase(s), AppendLowercase(needle)))

-----------------------------------------------------------------------------
(* Properties of the filter evaluator (SpecFilter) *)

IsTextFilter == flt.kind \in {"prefix", "phrase", "anyCasePhrase"}

IsConstColumn == bs.constValue # <<>>
IsAbsentColumn == bs.constValue = <<>> /\ ~bs.hasColumn

\* the filter's string predicate applied to the string v
Accepts(v) ==
    CASE flt.kind = "prefix" -> matchPrefix(v, flt.needle)
      [] flt.kind = "phrase" -> matchPhrase(v, flt.needle)
      [] flt.kind = "anyCasePhrase" -> matchAnyCasePhrase(v, AppendLowercase(flt.needle))

\* the value of the filter's field in row i, as a string
FieldValue(i) ==
    IF IsConstColumn THEN bs.constValue
    ELSE IF ~bs.hasColumn THEN <<>>
    ELSE IF bs.valueType = "Dict" THEN bs.valuesDict[bs.values[i] + 1]
    ELSE canonicalString(bs.valueType, bs.values[i])

\* C1: every apply leaves a bitmap that is a subset of the bitmap it was
\* handed, for every filter kind and every block; so along any sequence of
\* filters a cleared bit stays cleared.
C1_MonotoneBitmap == bm \subseteq bmIn

\* a filter cleared some bits of a column block and kept others
C1_Witness ==
    /\ IsTextFilter /\ bs.hasColumn
    /\ bm # bmIn /\ bm # {}

\* C2: on a const column with value v, the prefix, phrase and any-case phrase
\* filters leave the bitmap unchanged when their string predicate accepts v
\* and all-zero otherwise.
C2_ConstColumnEquivalence ==
    (IsConstColumn /\ IsTextFilter) =>
        bm = (IF Accepts(bs.constValue) THEN bmIn ELSE {})

\* a phrase filter accepted a const column and kept a non-empty bitmap
C2_Witness ==
    /\ IsConstColumn /\ flt.kind = "phrase"
    /\ Accepts(bs.constValue) /\ bm = bmIn /\ bm # {}

\* the tokens the filter hands to matchBloomFilterAllTokens
FilterTokens ==
    IF flt.kind = "prefix" THEN getTokensSkipLast(flt.needle)
    ELSE tokenizeStrings(flt.needle)

\* the needle the filter matches against the canonical string of a cell
MatchedNeedle ==
    IF flt.kind # "anyCasePhrase" THEN flt.needle
    ELSE IF bs.valueType = "TimestampISO8601" THEN ToUpper(flt.needle)
    ELSE AppendLowercase(flt.needle)

\* row i satisfies the filter's string-match predicate
RowSatisfies(i) ==
    LET str == canonicalString(bs.valueType, bs.values[i]) IN
    IF flt.kind = "prefix" THEN matchPrefix(str, MatchedNeedle)
    ELSE matchPhrase(str, MatchedNeedle)

\* the filter kind and column encoding probe the bloom filter
ProbesBloom ==
    /\ IsTextFilter /\ bs.hasColumn
    /\ \/ bs.valueType \in {"Float64", "IPv4", "TimestampISO8601"}
       \/ bs.valueType = "String" /\ flt.kind # "anyCasePhrase"

BloomRejects == ~matchBloomFilterAllTokens(bs, FilterTokens)

\* C3: when the bloom filter (which holds every token of every cell's
\* canonical string) reports that not all the filter's tokens are present,
\* no live row satisfies the filter's string-match predicate.
C3_BloomSoundness ==
    (ProbesBloom /\ BloomRejects) => \A i \in bmIn : ~RowSatisfies(i)

\* C7 (as claimed): on an absent field, a phrase or any-case phrase filter
\* with the empty phrase clears all bits.
C7_EmptyPhraseAbsentColumnClears ==
    (IsAbsentColumn /\ flt.kind \in {"phrase", "anyCasePhrase"} /\ flt.needle = <<>>)
        => bm = {}

\* C7 (amended): on an absent field, a phrase or any-case phrase filter with
\* the empty phrase leaves the bitmap unchanged.
C7_EmptyPhraseAbsentColumnKeeps ==
    (IsAbsentColumn /\ flt.kind \in {"phrase", "anyCasePhrase"} /\ flt.needle = <<>>)
        => bm = bmIn

\* an empty phrase was applied to a block without the field, rows were live
C7_Witness ==
    /\ IsAbsentColumn /\ flt.kind = "phrase" /\ flt.needle = <<>>
    /\ bmIn # {} /\ bm = bmIn

C16_StreamFilterClearsIffNotInSet ==
    flt.kind = "stream" =>
        bm = (IF bs.streamID \in flt.streamIDs THEN bmIn ELSE {})

\* C16 (amended): a stream filter with an empty set of label matchers leaves
\* the bitmap unchanged whatever the stream IDs are; any other stream filter
\* clears all bits iff the block's streamID is not in the resolved set.
C16_StreamFilterEmptyKeepsElseClearsIffNotInSet ==
    flt.kind = "stream" =>
        bm = (IF flt.isEmpty \/ bs.streamID \in flt.streamIDs THEN bmIn ELSE {})

\* a non-empty stream filter cleared the live rows of a block of another stream
C16_Witness ==
    /\ flt.kind = "stream" /\ ~flt.isEmpty
    /\ bs.streamID \notin flt.streamIDs
    /\ bmIn # {} /\ bm = {}

IsDictColumn == bs.constValue = <<>> /\ bs.hasColumn /\ bs.valueType = "Dict"

\* C22: on a Dict column, for each of the prefix, phrase and any-case phrase
\* filters, the resulting bitmap holds exactly the input-live rows r for
\* which the filter's string matcher accepts valuesDict[cell(r)]; if no
\* dictionary entry matches, all bits are cleared.
C22_DictMatchesDecodedStrings ==
    (IsTextFilter /\ IsDictColumn) =>
        /\ bm = {i \in bmIn : Accepts(bs.valuesDict[bs.values[i] + 1])}
        /\ (\A j \in DOMAIN bs.valuesDict : ~Accepts(bs.valuesDict[j])) => bm = {}

\* a filter accepted one entry of the dictionary and not the other, and
\* kept some of the live rows and cleared others
C22_Witness ==
    /\ IsTextFilter /\ IsDictColumn
    /\ \E j, k \in DOMAIN bs.valuesDict :
          Accepts(bs.valuesDict[j]) /\ ~Accepts(bs.valuesDict[k])
    /\ bm # {} /\ bm # bmIn

IsUintColumn == bs.constValue = <<>> /\ bs.hasColumn /\ IsUintType(bs.valueType)

\* the prefix filter's short-circuit on an unsigned integer column applies
PrefixAboveMaxValue ==
    ~tryParseUint64(flt.needle).ok \/ tryParseUint64(flt.needle).n > maxValue(bs)

\* C23: on a fixed-width unsigned integer column whose header maxValue is >=
\* every cell, a prefix filter with a non-empty prefix keeps exactly the
\* input-live rows whose decimal rendering satisfies matchPrefix; it clears
\* all bits when the prefix does not parse as an unsigned integer or parses
\* to a value > maxValue, and this short-circuit never discards a row whose
\* decimal rendering would prefix-match.
C23_UintPrefixMatchesRendering ==
    (flt.kind = "prefix" /\ IsUintColumn /\ flt.needle # <<>>) =>
        /\ bm = {i \in bmIn : matchPrefix(AppendUint(bs.values[i]), flt.needle)}
        /\ PrefixAboveMaxValue =>
              /\ bm = {}
              /\ \A i \in bmIn : ~matchPrefix(AppendUint(bs.values[i]), flt.needle)

\* the prefix "12" cleared the live rows of a column whose cells are all 1
C23_Witness ==
    /\ flt.kind = "prefix" /\ IsUintColumn
    /\ tryParseUint64(flt.needle).ok
    /\ tryParseUint64(flt.needle).n > maxValue(bs)
    /\ matchPrefix(flt.needle, AppendUint(maxValue(bs)))
    /\ bmIn # {} /\ bm = {}

IsIPv4Column == bs.constValue = <<>> /\ bs.hasColumn /\ bs.valueType = "IPv4"

\* C24: on an IPv4 column, a phrase filter whose needle is not a full
\* dotted-quad keeps exactly the input-live rows whose dotted-quad rendering
\* satisfies matchPhrase with token boundaries; a needle that is a full
\* dotted-quad keeps exactly the input-live rows whose 4-byte cell is the
\* parsed address.
C24_IPv4PhraseMatchesRendering ==
    (flt.kind = "phrase" /\ IsIPv4Column) =>
        IF tryParseIPv4(flt.needle).ok
        THEN bm = {i \in bmIn : bs.values[i] = tryParseIPv4(flt.needle).v}
        ELSE bm = {i \in bmIn : matchPhrase(toIPv4String(bs.values[i]), flt.needle)}

\* the phrase "1.23" on a block of two live rows kept the row holding
\* 192.168.1.23 or 10.1.23.4 and cleared the row holding 10.0.0.1
C24_Witness ==
    /\ flt.kind = "phrase" /\ IsIPv4Column
    /\ flt.needle = <<49, 46, 50, 51>>
    /\ \E i, j \in bmIn :
          /\ bs.values[i] = <<10, 0, 0, 1>> /\ i \notin bm
          /\ bs.values[j] \in {<<192, 168, 1, 23>>, <<10, 1, 23, 4>>} /\ j \in bm

IsTimestampColumn ==
    bs.constValue = <<>> /\ bs.hasColumn /\ bs.valueType = "TimestampISO8601"

\* C25: on a TimestampISO8601 column the any-case phrase filter upper-cases
\* the needle before matching, so an any-case phrase filter whose phrase
\* differs from the applied one only in letter case produces the same bitmap
\* on the same block and input bitmap, also when the bloom filter is probed.
C25_AnyCaseTimestampSameBitmap ==
    (flt.kind = "anyCasePhrase" /\ IsTimestampColumn) =>
        \A phrase \in TimestampNeedles :
            AppendLowercase(phrase) = AppendLowercase(flt.needle) =>
                anyCasePhraseFilterApply(bs, bmIn, phrase) = bm

-----------------------------------------------------------------------------
(* Properties of the shared stream filter (SpecOnce) *)

\* C17: under any interleaving of concurrent apply calls on one stream
\* filter searchStreamIDs is invoked at most once, it is not invoked before
\* an apply that needs it (an apply of a filter that is not empty) has been
\* entered, and every apply that consults the set holds the fully built
\* result of that one invocation, never a nil or partly filled map.
C17_SearchOnceAndFullyBuilt ==
    /\ fs.searches <= 1
    /\ fs.searches >= 1 => ~fs.isEmpty /\ \E c \in Callers : ap[c].ncalls >= 1
    /\ \A c \in Callers :
          ap[c].pc = "test" =>
              fs.searches = 1 /\ ap[c].seen = makeMap(fs.found)

\* one goroutine consults the full set of two stream IDs while the other,
\* which lost the race for the Once, holds its mutex and finds it done
C17_Witness ==
    /\ fs.found = StreamIDs
    /\ \E c1, c2 \in Callers :
          /\ c1 # c2
          /\ ap[c1].pc = "test" /\ ap[c1].seen.ids = StreamIDs
          /\ ap[c2].pc = "check" /\ fs.done

-----------------------------------------------------------------------------
(* Properties of the stats pipe (SpecStats) *)

\* the rows flush handed to ppBase, over all blocks
RECURSIVE flattenBlocks(_)
flattenBlocks(blocks) ==
    IF blocks = <<>> THEN <<>> ELSE Head(blocks) \o flattenBlocks(Tail(blocks))

\* a sequence of rows as a multiset: row |-> number of occurrences
rowsBag(rows) ==
    [r \in {rows[i] : i \in DOMAIN rows} |->
        Cardinality({i \in DOMAIN rows : rows[i] = r})]

\* the output row of the group of key in the map m
groupRow(m, key) ==
    unmarshalKey(key).values \o [j \in 1..Len(funcs) |-> finalizeStats(m[key][j])]

\* the multiset of rows flush emits when the processor has the one shard
\* whose map is m: a group per key; with no by-fields and no group,
\* `shards[0]` of the empty psp.shards[1:] panics and nothing is emitted
singleShardRows(m) ==
    [r \in {groupRow(m, key) : key \in DOMAIN m} |->
        Cardinality({key \in DOMAIN m : groupRow(m, key) = r})]

NoWorkerInWriteBlock == \A w \in Workers : wb[w].pc = "idle"
NoBlockDropped == \A w \in Workers : ~wb[w].dropped
NoWriteBlockCall == \A w \in Workers : wb[w].ncalls = 0

\* flush ran to its end: it returned, not with the resource-exhaustion
\* error and not because stopCh was closed
FlushRanToEnd == fl.pc = "returned" /\ fl.result # "error" /\ ~fl.early

\* C9: P7 stats associativity: for any row stream, any number of workers
\* k >= 1 and any assignment of the blocks to the k shards, with the budget
\* not exhausted and no cancellation, the multiset of rows flush emits after
\* merging the shards equals the multiset emitted when all the blocks are
\* fed to a single shard.
C9_StatsAssociativity ==
    (FlushRanToEnd /\ NoBlockDropped /\ cancelCalls = 0)
        => rowsBag(flattenBlocks(out)) = singleShardRows(single.m)

\* C10: with no by-fields and no writeBlock call, for every worker count
\* flush returns without error or panic and emits exactly one row, which
\* holds the zero-row aggregate of each function (count() = 0).
C10_ZeroRowsEmitOneRow ==
    (ps.byFields = 0 /\ NoWriteBlockCall /\ FlushRanToEnd)
        => /\ fl.result = "nil"
           /\ out = << << <<finalizeStats(0)>> >> >>

SomeBlockDropped == \E w \in Workers : wb[w].dropped

\* C11 (as claimed): in every run and interleaving, if some attempt to take
\* a chunk left the global stateSizeBudget negative, cancel() was invoked
\* exactly once.
C11_CancelExactlyOnce == SomeBlockDropped => cancelCalls = 1

\* C11 (amended): when the processor starts with a non-negative global
\* budget, cancel() has been invoked once if the global counter is negative
\* and never otherwise, and it is invoked only in the step whose decrement
\* takes the counter from a non-negative to a negative value.
C11_CancelOnceAtFirstCrossing ==
    /\ [](ps.maxStateSize >= 0 =>
            cancelCalls = (IF stateSizeBudget < 0 THEN 1 ELSE 0))
    /\ [][ps.maxStateSize >= 0 =>
            ((cancelCalls' # cancelCalls)
                <=> (stateSizeBudget >= 0 /\ stateSizeBudget' < 0))]_vars

\* two workers failed to take a chunk and cancel was called once
C11_Witness ==
    /\ ps.maxStateSize >= 0
    /\ Cardinality({w \in Workers : wb[w].dropped}) = 2
    /\ cancelCalls = 1

FlushReturnedError == fl.pc = "returned" /\ fl.result = "error"

\* C12 (as claimed): flush returns the resource-exhaustion error if and only
\* if some earlier writeBlock failed to obtain budget and cancel() was
\* invoked.
C12_ErrorIffCancelled ==
    fl.pc = "returned" =>
        (fl.result = "error" <=> (SomeBlockDropped /\ cancelCalls >= 1))

\* C12 (amended): flush returns the resource-exhaustion error if and only if
\* the global counter is zero or negative when flush is called; that is the
\* case in every run where a writeBlock failed to obtain budget, and also
\* in runs without any failed attempt or cancel().
C12_ErrorIffBudgetNotPositive ==
    fl.pc = "returned" =>
        /\ fl.result = "error" <=> stateSizeBudget <= 0
        /\ SomeBlockDropped => fl.result = "error"

\* flush reported the error after every block was aggregated: the chunks
\* taken brought the global counter to exactly zero
C12_Witness ==
    /\ FlushReturnedError
    /\ ps.maxStateSize > 0 /\ stateSizeBudget = 0
    /\ ~SomeBlockDropped /\ cancelCalls = 0

\* C28: in every run and interleaving, for every initial budget, if a
\* writeBlock call returned without aggregating its block, flush does
\* nothing but return the resource-exhaustion error: it never enters its
\* merge or write loops and hands no block to ppBase.writeBlock.
C28_NoOutputAfterDroppedBlock ==
    SomeBlockDropped =>
        /\ fl.pc \in {"idle", "returned"}
        /\ fl.pc = "returned" => fl.result = "error" /\ ~fl.early
        /\ out = <<>>

\* a block was aggregated, a later block was dropped, and flush returned the
\* error without emitting the partial aggregate
C28_Witness ==
    /\ SomeBlockDropped /\ FlushReturnedError /\ out = <<>>
    /\ \E w \in Workers : wb[w].dropped /\ DOMAIN shards[w].m # {}

RECURSIVE sumCharged(_)
sumCharged(n) == IF n = 0 THEN 0 ELSE sumCharged(n - 1) + wb[n - 1].charged

\* the stats state allocated so far over all shards
totalStateSize == sumCharged(ps.workersCount)

\* the configured budget, 0.3 x memory.Allowed()
configuredBudget == ps.maxStateSize + ps.workersCount * stateSizeBudgetChunk

\* C13: P8 budget bound: in every reachable state the stats state allocated
\* over all shards is at most the configured budget (0.3 x memory limit)
\* plus workers x 1 MiB, whatever a single block adds.
C13_BudgetBound ==
    totalStateSize <= configuredBudget + ps.workersCount * stateSizeBudgetChunk

RECURSIVE sumShardBudgets(_)
sumShardBudgets(n) ==
    IF n = 0 THEN 0 ELSE sumShardBudgets(n - 1) + shards[n - 1].stateSizeBudget

RECURSIVE sumFailed(_)
sumFailed(n) == IF n = 0 THEN 0 ELSE sumFailed(n - 1) + wb[n - 1].failed

\* the budget that is in the global counter, in the shards or charged
accountedBudget ==
    stateSizeBudget + sumShardBudgets(ps.workersCount) + totalStateSize

\* C19 (as claimed): I4 budget accounting: in every reachable state the
\* global counter plus the shard budgets plus the state-size deltas charged
\* so far equal the initial total budget (initial global counter plus
\* workers x 1 MiB): no writeBlock creates or loses budget, also not one
\* whose chunk request fails.
C19_BudgetConserved == accountedBudget = configuredBudget

\* C19 (amended): every chunk request that fails takes 1 MiB out of the
\* global counter that no shard receives: the global counter plus the shard
\* budgets plus the charged deltas equal the initial total budget minus
\* 1 MiB for every failed chunk request.
C19_BudgetConservedUpToFailedRequests ==
    accountedBudget =
        configuredBudget - sumFailed(ps.workersCount) * stateSizeBudgetChunk

\* a chunk request failed after state was charged to the shards
C19_Witness ==
    /\ sumFailed(ps.workersCount) >= 1
    /\ totalStateSize > stateSizeBudgetChunk
    /\ stateSizeBudget < 0

\* the step is an iteration of the output loop that finalizes a group
FinalizeStep == fl.pc = "write" /\ fl'.pc = "write" /\ fl'.keys # fl.keys

\* flush returned after stopCh was closed, with the budget not exhausted
ReturnedAfterStop == stopCh /\ fl.pc = "returned" /\ stateSizeBudget > 0

\* the run in which flush panics: one worker, no by-fields, no group
ZeroRowsSingleWorker ==
    ps.byFields = 0 /\ ps.workersCount = 1 /\ DOMAIN shards[0].m = {}

FlushInProgress == fl.pc \in {"merge", "write"}

\* the step is an iteration of the merge loop or of the output loop that
\* handles a group
GroupStep ==
    /\ FlushInProgress
    /\ fl'.pc = fl.pc /\ fl'.i = fl.i /\ fl'.keys # fl.keys

\* C15: P9 cancel liveness: flush always terminates by returning, and once
\* stopCh is closed it handles no further group (no merge step, no output
\* row) beyond the iteration in progress, however many groups and shards
\* remain.
C15_FlushReturnsSoonAfterStop ==
    /\ FlushInProgress ~> (fl.pc = "returned" /\ fl.result = "nil")
    /\ [][stopCh => ~GroupStep]_vars

-----------------------------------------------------------------------------
(* Properties of the group keys (SpecKey) *)

\* C18: the group key is injective and reversible: the keys of two tuples of
\* by-field values are equal iff the tuples are equal (also for empty values
\* and for values whose bytes look like length prefixes), and the decode loop
\* of flush yields for every key exactly len(byFields) values, equal to the
\* tuple the key was made of, so neither panic of the loop is reached.
C18_KeyInjectiveAndReversible ==
    kr.done =>
        /\ (Cardinality(DOMAIN kr.dec) = 1) <=> (kt.a = kt.b)
        /\ \A key \in DOMAIN kr.dec :
              /\ ~kr.dec[key].err
              /\ Len(kr.dec[key].values) = kt.byFields
        /\ {kr.dec[key].values : key \in DOMAIN kr.dec} = {kt.a, kt.b}

\* two different pairs of values, one with an empty value and a value that
\* is a length prefix, whose bytes concatenate to the same string, got two
\* keys
C18_Witness ==
    /\ kr.done
    /\ kt.byFields = 2
    /\ kt.a = << <<>>, <<1, 97>> >>
    /\ kt.b = << <<1>>, <<97>> >>
    /\ Cardinality(DOMAIN kr.dec) = 2

-----------------------------------------------------------------------------
(* Properties of the result blocks of flush (SpecFlushBig, SpecStats) *)

\* the group keys over all shards
allShardKeys == UNION {DOMAIN shards[w].m : w \in Workers}

RECURSIVE sumBlockRows(_)
sumBlockRows(n) == IF n = 0 THEN 0 ELSE sumBlockRows(n - 1) + Len(out[n])

\* C20: when flush completes without error or cancellation, the merged
\* groups are handed to ppBase.writeBlock in blocks of at most 1,000 rows:
\* every block is non-empty, every block but possibly the last has exactly
\* 1,000 rows, the number of rows over all blocks is the number of distinct
\* group keys over all shards, each key being emitted exactly once, and
\* every row has len(byFields) + len(resultNames) values.
C20_ResultBlocks ==
    (fl.pc = "returned" /\ fl.result = "nil" /\ ~fl.early) =>
        /\ \A b \in 1..Len(out) :
              /\ Len(out[b]) >= 1
              /\ Len(out[b]) <= maxResultBlockRows
              /\ b < Len(out) => Len(out[b]) = maxResultBlockRows
              /\ \A r \in 1..Len(out[b]) :
                    Len(out[b][r]) = ps.byFields + Len(funcs)
        /\ sumBlockRows(Len(out)) = Cardinality(allShardKeys)
        /\ UNION {{SubSeq(out[b][r], 1, ps.byFields) : r \in 1..Len(out[b])} :
                     b \in 1..Len(out)}
           = {unmarshalKey(key).values : key \in allShardKeys}
        /\ DOMAIN single.m # {} => allShardKeys = DOMAIN single.m

\* 1,001 groups were handed over in a block of 1,000 rows and one of 1 row
C20_Witness ==
    /\ fl.pc = "returned" /\ fl.result = "nil" /\ ~fl.early
    /\ Cardinality(allShardKeys) = maxResultBlockRows + 1
    /\ Len(out) = 2
    /\ Len(out[1]) = maxResultBlockRows
    /\ Len(out[2]) = 1

-----------------------------------------------------------------------------
(* Properties of the journald parser (SpecJournal) *)

IsBinaryKind(kind) == kind \in {"bin0", "bin3", "bin9"}

\* the request is the uncut export format of entries without binary fields
PlainRequest ==
    /\ jr.cut = 0
    /\ \A e \in 1..Len(jr.entries) : \A f \in 1..Len(jr.entries[e]) :
          ~IsBinaryKind(jr.entries[e][f])

\* the timestamp of the e-th entry of the request: 1000 x the microseconds
\* of its time field, or the current time of the request
entryTimestamp(e) ==
    IF \E f \in 1..Len(jr.entries[e]) : jr.entries[e][f] = "time"
    THEN 1000 * journalTimeMicros
    ELSE jr.now

\* C21: for any sequence of journal entries in one request every row passed
\* to AddRow carries the timestamp of its own entry: 1000 x the microsecond
\* value of that entry's time field, or the request's current time when the
\* entry has no time field; the timestamp of an earlier entry is never
\* reused for a later entry.
C21_RowCarriesOwnTimestamp ==
    (jp.pc # "idle" /\ PlainRequest) =>
        \A r \in 1..Len(jp.rows) :
            jp.rows[r].ts = entryTimestamp(jp.rows[r].entry)

\* the fields AddRow is to receive for an entry: its fields without the
\* time field and, unless included, without the entry metadata, MESSAGE
\* renamed to _msg, a binary field with exactly the bytes of its value
RECURSIVE entryFields(_)
entryFields(entry) ==
    IF entry = <<>> THEN <<>>
    ELSE LET kind == Head(entry)
             rest == entryFields(Tail(entry))
         IN IF kind = "time" \/ (kind = "meta" /\ ~jr.includeEntryMetadata) THEN rest
            ELSE <<[Name |-> IF kind = "msg" THEN msgFieldName ELSE fieldName(kind),
                    Value |-> fieldValue(kind)]>> \o rest

\* the last field of the request is a binary field, the only one
LastFieldIsOnlyBinary ==
    LET last == jr.entries[Len(jr.entries)] IN
    /\ IsBinaryKind(last[Len(last)])
    /\ \A e \in 1..Len(jr.entries) : \A f \in 1..Len(jr.entries[e]) :
          IsBinaryKind(jr.entries[e][f]) => e = Len(jr.entries) /\ f = Len(last)

\* C30: for a binary-framed field (a name line without `=`, an 8-byte
\* little-endian size n, n value bytes and a newline) parseJournaldRequest
\* yields a field value of exactly those n bytes and resumes after the
\* trailing newline, for every n >= 0 and every position of the field; a
\* declared size that exceeds the remaining data is reported as an error;
\* no index-out-of-range condition is reachable.
C30_BinaryFieldExact ==
    jp.pc = "returned" =>
        /\ jp.result # "panic"
        /\ jr.cut = 0 =>
              /\ jp.result = "ok"
              /\ \A r \in 1..Len(jp.rows) :
                    jp.rows[r].fields = entryFields(jr.entries[jp.rows[r].entry])
        /\ (jr.cut = MaxCut /\ LastFieldIsOnlyBinary) => jp.result = "error"

-----------------------------------------------------------------------------
(* Properties of the paths of writeBlock (SpecWriteBlock) *)

\* the by-columns of the block as writeBlock reads them
blockColumnValues(br, byFields) ==
    [j \in 1..byFields |-> getBucketedValues(br.columns[j])]

\* the key of the group of row i (from 1) of the block
rowKey(br, byFields, i) == marshalRow(blockColumnValues(br, byFields), i, byFields)

\* the map after rows 1..n of the block were applied one by one, each to the
\* processors of the group resolved for that row alone
RECURSIVE applyRowByRow(_, _, _, _)
applyRowByRow(m, br, byFields, n) ==
    IF n = 0 THEN m
    ELSE LET prev == applyRowByRow(m, br, byFields, n - 1)
             key == rowKey(br, byFields, n)
             sfps == IF key \in DOMAIN prev THEN prev[key]
                     ELSE [i \in 1..Len(funcs) |-> newStatsProcessor(funcs[i]).sfp]
         IN mapPut(prev, key,
                   [i \in 1..Len(funcs) |-> updateStatsForRow(sfps[i], br, n - 1).sfp])

LastBlock == wb[0].br
WroteBlock == wb[0].ncalls > 0

\* C26: for every block with at least one row and 0, 1 or 2 by-fields, the
\* groups of the shard after writeBlock are those obtained by applying each
\* row once, in row order, to the group whose key encodes that row's
\* by-field values, whichever path writeBlock took.
C26_PathsEqualRowByRow ==
    (WroteBlock /\ LastBlock.nrows >= 1) =>
        shards[0].m = applyRowByRow(single.m, LastBlock, ps.byFields, LastBlock.nrows)

\* rows (a), (a), (b) grouped by one field went through the change-detected
\* walk into the groups a with 2 rows and b with 1 row
C26_Witness ==
    /\ WroteBlock /\ ps.byFields = 1 /\ LastBlock.nrows = 3
    /\ ~LastBlock.columns[1].isConst
    /\ LastBlock.columns[1].values = <<<<97>>, <<97>>, <<98>>>>
    /\ single.m = emptyMap
    /\ shards[0].m = mapPut(mapPut(emptyMap, MarshalBytes(<<>>, <<97>>), <<2>>),
                            MarshalBytes(<<>>, <<98>>), <<1>>)

\* C29: with one or more by-fields, a writeBlock call adds a group to the
\* shard's map only for a key that a row of its block carries; a block with
\* zero rows adds no group.
C29_GroupsOnlyForProcessedRows ==
    (WroteBlock /\ ps.byFields > 0) =>
        DOMAIN shards[0].m \subseteq
            DOMAIN single.m \cup {rowKey(LastBlock, ps.byFields, i) : i \in 1..LastBlock.nrows}

-----------------------------------------------------------------------------
(* Properties of writeBlock after a dropped block (SpecDrop) *)

\* the step is taken by a writeBlock call of worker w
StepOfWorker(w) ==
    \/ \E br \in StatsBlocks(ps.byFields) : WriteBlock(w, br)
    \/ StealBudget(w)

\* C27: once a writeBlock call of worker w returned without processing its
\* block because the global budget was exhausted, every later writeBlock
\* call of w enters the budget loop and returns from its first failed
\* request, and shard w (its map, its processors) stays as it is; a step of
\* a writeBlock call of one worker leaves every other worker's shard as it
\* is.
C27_DroppedStaysDroppedAndShardsIsolated ==
    [][\A w \in Workers :
          /\ wb[w].dropped =>
                /\ shards'[w] = shards[w]
                /\ wb'[w].ncalls > wb[w].ncalls => wb'[w].pc = "steal"
                /\ (wb[w].pc = "steal" /\ wb'[w] # wb[w]) =>
                      wb'[w].pc = "idle" /\ wb'[w].failed = wb[w].failed + 1
          /\ StepOfWorker(w) =>
                \A v \in Workers \ {w} : shards'[v] = shards[v]]_vars

\* worker 0 made three calls: the first was aggregated, the second and the
\* third were dropped, while worker 1 aggregated a block into its own shard
C27_Witness ==
    /\ ps.workersCount = 2
    /\ wb[0].pc = "idle" /\ wb[0].ncalls = 3 /\ wb[0].failed = 2
    /\ shards[0].m[<<>>] # <<0>>
    /\ wb[1].ncalls > 0 /\ ~wb[1].dropped /\ <<>> \in DOMAIN shards[1].m

====
